---- MODULE Spec2Model ----
(***************************************************************************)
(* Bird visit tracker: the visit session engine (backend/state_machine.py), *)
(* the detection loop that drives it and writes the evidence store          *)
(* (backend/bird_detector.py), the analyzer worker that drains visits in    *)
(* status 'analyzing' (backend/main.py, backend/species_analyzer.py), and   *)
(* the capture script's analysis queue (scripts/pilot_bird_counter_fixed).  *)
(* _select_best_capture and _connect_camera have specifications of their    *)
(* own (SpecSelect, SpecCamera). Time is in whole seconds.                  *)
(***************************************************************************)
EXTENDS Integers, Sequences, FiniteSets, TLC

\* ---------------------------------------------------------------- bounds
\* Last clock reading at which the detection loop still runs a tick, under the
\* general configuration and under Config's defaults.
MaxTime == 10
MaxTimeDefault == 17
\* Largest number of seconds between two consecutive loop iterations.
MaxStep == 2
\* Number of injected environment failures (store write, storage upload,
\* detector adapter, classifier) in one run.
MaxFaults == 2
\* The configuration the general specification runs under (every setting is
\* read from the environment): grace period, cooldown, capture interval and
\* the largest MAX_CAPTURES_PER_VISIT the configuration space ranges over.
GraceCfg == 2
CooldownCfg == 4
IntervalCfg == 2
MaxCapturesCfg == 2

\* ------------------------------------------------- configuration (config.py)
\* The defaults of Config.
DefaultGrace == 5
DefaultCooldown == 15
DefaultInterval == 3
DefaultMaxCaptures == 5
OPENAI_MAX_RETRIES == 3
\* Config defines no OPENAI_RETRY_DELAY_SEC: reading it raises AttributeError.
HasRetryDelay == FALSE

\* None for Optional[datetime] fields and for Optional[Visit].
NoTime == -1
NoVisit == 0

VARIABLES
    clock,                \* datetime.now() read by the next loop iteration
    state,                \* VisitStateMachine.state
    current_visit,        \* VisitStateMachine.current_visit (a Visit id or NoVisit)
    absence_start_time,
    cooldown_start_time,
    last_capture_time,
    visits,               \* every Visit object created, indexed by id
    result,               \* what the last process_detection returned
    lastTick,             \* what the last loop iteration saw
    prevState,            \* the engine's state before the last loop iteration
    lastLifecycle,        \* the last start_visit / complete_visit emitted
    ABSENCE_GRACE_PERIOD_SEC,
    VISIT_COOLDOWN_SEC,
    CAPTURE_INTERVAL_SEC,
    MAX_CAPTURES_PER_VISIT,
    openai_client,        \* SpeciesAnalyzer.openai_client is configured
    dbVisits,             \* store table 'visits', by Visit id
    dbCaptures,           \* store table 'captures', by Visit id
    species_stats,        \* store table 'species_stats': total_visits by species
    workerPc,             \* where run_analyzer_worker stands
    workerBatch,          \* visits.data still to analyze in this pass
    best_capture,         \* analyze_visit's selected capture
    attempt,              \* _identify_species' loop index
    calls,                \* classifier calls made by the current analyze_visit
    failedCalls,          \* how many of them raised
    analysed,             \* the Visit the last finished analyze_visit was for
    scenario,             \* ticks so far that follow scenario A, or -1
    scenarioB,            \* ticks so far that follow scenario B (5: all of it), or -1;
                          \* observed under the scenario's configuration only
    instructions,         \* <<time, action>> of the instructions emitted so far
    faults,               \* environment failures injected so far
    horizon,              \* last clock reading at which a tick runs
    analysis_queue,       \* the capture script's Queue: the tasks not yet taken
    unfinished_tasks,     \* Queue.unfinished_tasks: put() minus task_done()
    analysis_stop_event,
    mainLoc,              \* where run_capture_and_analyse stands
    workerLoc,            \* where analysis_worker stands
    produced,             \* tasks put so far
    processed,            \* tasks the worker body has run to its end
    captures_in,          \* the captures handed to _select_best_capture
    selected,             \* what _select_best_capture returned
    selectPc,             \* "idle", "call" or "done"
    camPc,                \* "idle", or "connecting" inside _connect_camera
    backoff_seconds,      \* _connect_camera's local backoff_seconds
    attempts,             \* _connect_camera's local attempts
    slept,                \* the sleeps of the current _connect_camera call
    lastAttempt,          \* what the last connection attempt saw
    connectResult,        \* what the last _connect_camera call returned
    camera_health,        \* system_health status reported for 'camera'
    connectCalls,         \* calls of _connect_camera so far
    running,              \* BirdDetector.run has been entered
    consecutive_failures, \* BirdDetector.consecutive_failures
    streak,               \* failed reads since the last successful read or reconnect
    since_tick,           \* now_ms - last_detection_time, capped at the interval
    lastIter,             \* what the last iteration of run's loop did
    iterSleep,            \* milliseconds the last iteration of run's loop slept
    cap,                  \* BirdDetector.cap: None, or a capture that is opened or not
    cap_peak,             \* most connections the detector had open at once in its last step
    grab_cap,             \* frame_grabber's local cap
    grab_peak,            \* most connections frame_grabber had open at once in its last pass
    grabber_alive,        \* frame_grabber has not returned
    grabPc,               \* frame_grabber's position
    consPc,               \* position of the capture script's main loop
    frame_lock,           \* owner of frame_holder["lock"]
    holder_frame,         \* frame_holder["frame"]; 0 is None
    grabbed,              \* frame_grabber's local frame
    frame,                \* the main loop's local frame
    lastWritten,          \* the frame of the latest write to the holder
    framesRead,           \* reads of the holder by the main loop so far
    tblVisits,            \* the store's visits table, a list of rows
    tblCaptures,          \* the store's captures table, a list of rows
    lastWrite,            \* the latest write sent to the store
    repeated,             \* the latest write had the payload of the one before
    writes,               \* writes sent to the store so far
    lock_files,           \* images whose .lock file exists
    holding,              \* per analyzer process, the image it holds the lock of; 0 is none
    lock_ret,             \* per analyzer process, what its latest try_lock returned
    lastLockOp,           \* the latest lock call: kind, process, image, outcome
    lockOps,              \* lock calls so far
    metrics_file,         \* METRICS_FILE: missing, not JSON, or a JSON document
    saved,                \* the metrics of the latest save_metrics that wrote the file
    loaded,               \* what the latest load_metrics did
    lastMetricsOp,        \* the latest metrics call and what the file system did to it
    metricsOps,           \* metrics calls so far
    name_in,              \* the name normalize_species is called with
    normalized,           \* what it returned
    wall,                 \* time.time() as the capture script's main loop last read it
    midnight,             \* the time.time() at which date.today() changes
    today,                \* the main loop's today, as a day number
    unique_count,         \* the main loop's unique_count
    script_last_capture_time,   \* the main loop's last_capture_time
    last_bird_detection_time,   \* the main loop's last_bird_detection_time
    bird_present,         \* the main loop's bird_present
    last_detection_timestamp,   \* the main loop's last_detection_timestamp
    puts,                 \* the tasks put on analysis_queue by the main loop
    mainPc,               \* the main loop is running or has left the loop
    lastPass,             \* what the latest pass of the main loop saw
    image_digest,         \* per image path in the capture root, the digest of its bytes
    bird_digests,         \* the contents in which detect_birds_yolo accepts a box
    in_root,              \* the image paths iter_new_images still finds
    processed_images,     \* the analyzer's set processed
    existing_ids,         \* the analyzer's set existing_ids
    start_ids,            \* the ids in the metrics file when the analyzer started
    analysed_count,       \* per digest, the analyses of the run so far
    lastProcess,          \* the latest process_one call: image and the path it took
    processCalls          \* process_one calls so far

engineVars == <<state, current_visit, absence_start_time, cooldown_start_time,
                last_capture_time>>
cfgVars == <<ABSENCE_GRACE_PERIOD_SEC, VISIT_COOLDOWN_SEC, CAPTURE_INTERVAL_SEC,
             MAX_CAPTURES_PER_VISIT, openai_client, horizon>>
storeVars == <<dbVisits, dbCaptures, species_stats>>
workerVars == <<workerPc, workerBatch, best_capture, attempt, calls, failedCalls,
                analysed>>
tickVars == <<clock, visits, result, lastTick, prevState, lastLifecycle, scenario,
              scenarioB, instructions>>
backendVars == <<engineVars, cfgVars, storeVars, workerVars, tickVars, faults>>
queueVars == <<analysis_queue, unfinished_tasks, analysis_stop_event, mainLoc,
               workerLoc, produced, processed>>
selectVars == <<captures_in, selected, selectPc>>
loopVars == <<running, consecutive_failures, streak, since_tick, lastIter, iterSleep>>
handleVars == <<cap, cap_peak, grab_cap, grab_peak, grabber_alive>>
cameraVars == <<camPc, backoff_seconds, attempts, slept, lastAttempt, connectResult,
                camera_health, connectCalls, loopVars, handleVars>>
frameVars == <<grabPc, consPc, frame_lock, holder_frame, grabbed, frame, lastWritten,
               framesRead>>
tableVars == <<tblVisits, tblCaptures, lastWrite, repeated, writes>>
lockVars == <<lock_files, holding, lock_ret, lastLockOp, lockOps>>
metricsVars == <<metrics_file, saved, loaded, lastMetricsOp, metricsOps>>
normVars == <<name_in, normalized>>
captureVars == <<wall, midnight, today, unique_count, script_last_capture_time,
                 last_bird_detection_time, bird_present, last_detection_timestamp,
                 puts, mainPc, lastPass>>
analyzerVars == <<image_digest, bird_digests, in_root, processed_images, existing_ids,
                  start_ids, analysed_count, lastProcess, processCalls>>
pilotVars == <<captureVars, analyzerVars>>
scriptVars == <<frameVars, tableVars, lockVars, metricsVars, normVars, pilotVars>>
sideVars == <<selectVars, cameraVars, scriptVars>>
vars == <<backendVars, queueVars, sideVars>>

\* ------------------------------------------------------------ state_machine.py
NoResult == [action |-> "none", visit |-> NoVisit, capture |-> FALSE]

\* Visit.__init__
NewVisit(now) ==
    [start_time |-> now, end_time |-> NoTime, captures |-> <<>>, status |-> "active"]

\* The engine object as a record, so that the helpers below compose.
Self ==
    [state |-> state, current_visit |-> current_visit,
     absence_start_time |-> absence_start_time,
     cooldown_start_time |-> cooldown_start_time,
     last_capture_time |-> last_capture_time,
     visits |-> visits]

should_capture(self, now) ==
    IF self.last_capture_time = NoTime THEN TRUE
    ELSE now - self.last_capture_time >= CAPTURE_INTERVAL_SEC

\* Variant: the grace period must be exceeded, not just reached.
absence_timeout_strict(self, now) ==
    IF self.absence_start_time = NoTime THEN FALSE
    ELSE now - self.absence_start_time > ABSENCE_GRACE_PERIOD_SEC

\* Variant: any not-detected tick in BIRD_ABSENT ends the Visit.
absence_timeout_immediate(self, now) ==
    self.absence_start_time # NoTime

\* Variant: the absence is measured against the capture interval.
absence_timeout_interval(self, now) ==
    IF self.absence_start_time = NoTime THEN FALSE
    ELSE now - self.absence_start_time >= CAPTURE_INTERVAL_SEC

absence_timeout_elapsed(self, now) ==
    IF self.absence_start_time = NoTime THEN FALSE
    ELSE now - self.absence_start_time >= ABSENCE_GRACE_PERIOD_SEC

\* Variant: a detected tick may start a Visit at any time.
cooldown_elapsed_always(self, now) == TRUE

\* Variant: the cooldown is measured against the grace period.
cooldown_elapsed_grace(self, now) ==
    IF self.cooldown_start_time = NoTime THEN TRUE
    ELSE now - self.cooldown_start_time >= ABSENCE_GRACE_PERIOD_SEC

cooldown_elapsed(self, now) ==
    IF self.cooldown_start_time = NoTime THEN TRUE
    ELSE now - self.cooldown_start_time >= VISIT_COOLDOWN_SEC

\* Variant: after the first Visit, a start reopens the last Visit.
start_visit_reopens(self, now) ==
    LET id == IF self.visits = <<>> THEN 1 ELSE Len(self.visits) IN
    [self |-> [self EXCEPT !.visits = IF self.visits = <<>>
                                      THEN Append(@, NewVisit(now)) ELSE @,
                           !.current_visit = id,
                           !.state = "bird_present",
                           !.last_capture_time = now],
     result |-> [action |-> "start_visit", visit |-> id, capture |-> TRUE]]

start_visit(self, now) ==
    LET id == Len(self.visits) + 1 IN
    [self |-> [self EXCEPT !.visits = Append(@, NewVisit(now)),
                           !.current_visit = id,
                           !.state = "bird_present",
                           !.last_capture_time = now],
     result |-> [action |-> "start_visit", visit |-> id, capture |-> TRUE]]

\* Variant: the capture count is not looked at.
capture_photo_uncapped(self, now) ==
    [self |-> [self EXCEPT !.last_capture_time = now],
     result |-> [action |-> "capture", visit |-> self.current_visit,
                 capture |-> TRUE]]

capture_photo(self, now) ==
    IF Len(self.visits[self.current_visit].captures) >= MAX_CAPTURES_PER_VISIT
    THEN [self |-> self, result |-> NoResult]
    ELSE [self |-> [self EXCEPT !.last_capture_time = now],
          result |-> [action |-> "capture", visit |-> self.current_visit,
                      capture |-> TRUE]]

enter_absence(self, now) ==
    [self EXCEPT !.state = "bird_absent", !.absence_start_time = now]

\* Variant: the absence timer is left running.
resume_presence_keeps_timer(self, now) ==
    [self EXCEPT !.state = "bird_present"]

resume_presence(self, now) ==
    [self EXCEPT !.state = "bird_present", !.absence_start_time = NoTime]

\* Variant: the engine keeps its reference to the closed Visit.
complete_visit_keeps_current(self, now) ==
    LET id == self.current_visit IN
    [self |-> [self EXCEPT !.visits[id].end_time = now,
                           !.visits[id].status = "analyzing",
                           !.state = "visit_complete",
                           !.cooldown_start_time = now,
                           !.absence_start_time = NoTime],
     result |-> [action |-> "complete_visit", visit |-> id, capture |-> FALSE]]

\* Variant: the closed Visit is handed over still 'active'.
complete_visit_keeps_status(self, now) ==
    LET id == self.current_visit IN
    [self |-> [self EXCEPT !.visits[id].end_time = now,
                           !.state = "visit_complete",
                           !.cooldown_start_time = now,
                           !.absence_start_time = NoTime,
                           !.current_visit = NoVisit],
     result |-> [action |-> "complete_visit", visit |-> id, capture |-> FALSE]]

\* Variant: the Visit is closed at a time one cooldown before the tick.
complete_visit_backdated(self, now) ==
    LET id == self.current_visit IN
    [self |-> [self EXCEPT !.visits[id].end_time = now - VISIT_COOLDOWN_SEC,
                           !.visits[id].status = "analyzing",
                           !.state = "visit_complete",
                           !.cooldown_start_time = now,
                           !.absence_start_time = NoTime,
                           !.current_visit = NoVisit],
     result |-> [action |-> "complete_visit", visit |-> id, capture |-> FALSE]]

complete_visit(self, now) ==
    LET id == self.current_visit IN
    [self |-> [self EXCEPT !.visits[id].end_time = now,
                           !.visits[id].status = "analyzing",
                           !.state = "visit_complete",
                           !.cooldown_start_time = now,
                           !.absence_start_time = NoTime,
                           !.current_visit = NoVisit],
     result |-> [action |-> "complete_visit", visit |-> id, capture |-> FALSE]]

\* Variant: leaving VISIT_COMPLETE takes a tick of its own.
process_detection_idle_first(self, bird_detected, now) ==
    CASE self.state = "idle" ->
            IF bird_detected /\ cooldown_elapsed(self, now)
            THEN start_visit(self, now)
            ELSE [self |-> self, result |-> NoResult]
      [] self.state = "bird_present" ->
            IF bird_detected
            THEN IF should_capture(self, now)
                 THEN capture_photo(self, now)
                 ELSE [self |-> self, result |-> NoResult]
            ELSE [self |-> enter_absence(self, now), result |-> NoResult]
      [] self.state = "bird_absent" ->
            IF bird_detected
            THEN [self |-> resume_presence(self, now), result |-> NoResult]
            ELSE IF absence_timeout_elapsed(self, now)
                 THEN complete_visit(self, now)
                 ELSE [self |-> self, result |-> NoResult]
      [] self.state = "visit_complete" ->
            IF cooldown_elapsed(self, now)
            THEN [self |-> [self EXCEPT !.state = "idle"], result |-> NoResult]
            ELSE [self |-> self, result |-> NoResult]

process_detection(self, bird_detected, now) ==
    CASE self.state = "idle" ->
            IF bird_detected /\ cooldown_elapsed(self, now)
            THEN start_visit(self, now)
            ELSE [self |-> self, result |-> NoResult]
      [] self.state = "bird_present" ->
            IF bird_detected
            THEN IF should_capture(self, now)
                 THEN capture_photo(self, now)
                 ELSE [self |-> self, result |-> NoResult]
            ELSE [self |-> enter_absence(self, now), result |-> NoResult]
      [] self.state = "bird_absent" ->
            IF bird_detected
            THEN [self |-> resume_presence(self, now), result |-> NoResult]
            ELSE IF absence_timeout_elapsed(self, now)
                 THEN complete_visit(self, now)
                 ELSE [self |-> self, result |-> NoResult]
      [] self.state = "visit_complete" ->
            IF cooldown_elapsed(self, now)
            THEN IF bird_detected
                 THEN start_visit([self EXCEPT !.state = "idle"], now)
                 ELSE [self |-> [self EXCEPT !.state = "idle"], result |-> NoResult]
            ELSE [self |-> self, result |-> NoResult]

\* ------------------------------------------------------------ bird_detector.py
\* A row of the store's 'visits' table; status "missing" stands for no row.
MissingRow == [status |-> "missing", species |-> "none", summary |-> "none"]

\* Visit.to_dict as far as the store's readers use it.
to_dict(visit) == [status |-> visit.status, species |-> "none", summary |-> "none"]

\* update(...).eq('id', id): changes the row when there is one.
UpdateRow(db, id, row) ==
    IF db[id].status = "missing" THEN db ELSE [db EXCEPT ![id] = row]

\* What the environment does to one iteration's writes: TRUE is success.
Outcomes(res) ==
    {o \in [create : BOOLEAN, upload : BOOLEAN, insert : BOOLEAN, finalize : BOOLEAN] :
        /\ (res.action # "start_visit" => o.create)
        /\ (~res.capture => o.upload /\ o.insert)
        /\ (res.action # "complete_visit" => o.finalize)}

Failures(o) ==
    (IF o.create THEN 0 ELSE 1) + (IF o.upload THEN 0 ELSE 1)
    + (IF o.insert THEN 0 ELSE 1) + (IF o.finalize THEN 0 ELSE 1)

create_visit_in_db(db, visit, ok) ==
    Append(db, IF ok THEN to_dict(visit) ELSE MissingRow)

\* The capture row built by _capture_and_store.
capture_data(visit, uploadOk) ==
    [is_best_capture |-> Len(visit.captures) = 0,
     image_url |-> IF uploadOk THEN "http" ELSE "local"]

\* Variant: the capture joins the in-memory list before the insert is tried.
capture_and_store_appends_first(vis, caps, id, o) ==
    [visits |-> [vis EXCEPT ![id].captures =
                    Append(@, capture_data(vis[id], o.upload))],
     dbCaptures |-> IF o.insert
                    THEN [caps EXCEPT ![id] =
                            Append(@, capture_data(vis[id], o.upload))]
                    ELSE caps]

\* _capture_and_store: the in-memory list grows only after the insert succeeded.
capture_and_store(vis, caps, id, o) ==
    IF o.insert
    THEN [visits |-> [vis EXCEPT ![id].captures =
                         Append(@, capture_data(vis[id], o.upload))],
          dbCaptures |-> [caps EXCEPT ![id] =
                         Append(@, capture_data(vis[id], o.upload))]]
    ELSE [visits |-> vis, dbCaptures |-> caps]

finalize_visit(db, id, visit, ok) ==
    IF ok THEN UpdateRow(db, id, to_dict(visit)) ELSE db

\* Variant: a failed insert of the visit row leaves the handler, as an
\* uncaught exception would, so the first photo of the Visit is not taken.
handle_state_action_create_raises(res, vis, o) ==
    IF res.action = "start_visit" /\ ~o.create
    THEN [visits |-> vis,
          dbVisits |-> create_visit_in_db(dbVisits, vis[res.visit], FALSE),
          dbCaptures |-> Append(dbCaptures, <<>>)]
    ELSE LET db1 == IF res.action = "start_visit"
                    THEN create_visit_in_db(dbVisits, vis[res.visit], o.create)
                    ELSE dbVisits
             caps0 == IF res.action = "start_visit" THEN Append(dbCaptures, <<>>)
                      ELSE dbCaptures
             st == IF res.capture THEN capture_and_store(vis, caps0, res.visit, o)
                   ELSE [visits |-> vis, dbCaptures |-> caps0]
             db2 == IF res.action = "complete_visit"
                    THEN finalize_visit(db1, res.visit, st.visits[res.visit], o.finalize)
                    ELSE db1
         IN [visits |-> st.visits, dbVisits |-> db2, dbCaptures |-> st.dbCaptures]

handle_state_action(res, vis, o) ==
    LET db1 == IF res.action = "start_visit"
               THEN create_visit_in_db(dbVisits, vis[res.visit], o.create)
               ELSE dbVisits
        caps0 == IF res.action = "start_visit" THEN Append(dbCaptures, <<>>)
                 ELSE dbCaptures
        st == IF res.capture THEN capture_and_store(vis, caps0, res.visit, o)
              ELSE [visits |-> vis, dbCaptures |-> caps0]
        db2 == IF res.action = "complete_visit"
               THEN finalize_visit(db1, res.visit, st.visits[res.visit], o.finalize)
               ELSE db1
    IN [visits |-> st.visits, dbVisits |-> db2, dbCaptures |-> st.dbCaptures]

\* ---- scenario A of the spec, observed: one tick per second from t = 0,
\* detected at t = 0..10 and not detected from t = 11 on.
\* scenario counts the ticks that followed it; -1 once the run has left it.
ScenarioNext(seen) ==
    IF scenario = clock /\ seen = (IF clock <= 10 THEN "detected" ELSE "clear")
    THEN scenario + 1 ELSE -1

\* ---- scenario B of the spec, observed: one tick per second from t = 0,
\* detected at t = 0, not detected at t = 1, 2, 3, detected again at t = 4.
\* scenarioB counts the ticks that followed it and stays 5 once all five have.
ScenarioBNext(seen) ==
    IF scenarioB = 5 THEN 5
    ELSE IF scenarioB = clock
            /\ seen = (IF clock \in {0, 4} THEN "detected" ELSE "clear")
         THEN scenarioB + 1 ELSE -1

\* The instructions of the run, kept while it follows the scenario.
Record(res, follows) ==
    IF ~follows THEN <<>>
    ELSE IF res.action = "none" THEN instructions
    ELSE Append(instructions, <<clock, res.action>>)

\* One iteration of BirdDetector.run with a frame read and a detector answer.
Tick ==
    /\ clock <= horizon
    /\ \E bird_detected \in BOOLEAN, dt \in 1..MaxStep :
         LET r == process_detection(Self, bird_detected, clock) IN
         \E o \in Outcomes(r.result) :
            LET h == handle_state_action(r.result, r.self.visits, o) IN
            /\ faults + Failures(o) <= MaxFaults
            /\ faults' = faults + Failures(o)
            /\ state' = r.self.state
            /\ current_visit' = r.self.current_visit
            /\ absence_start_time' = r.self.absence_start_time
            /\ cooldown_start_time' = r.self.cooldown_start_time
            /\ last_capture_time' = r.self.last_capture_time
            /\ visits' = h.visits
            /\ dbVisits' = h.dbVisits
            /\ dbCaptures' = h.dbCaptures
            /\ result' = r.result
            /\ lastTick' = IF bird_detected THEN "detected" ELSE "clear"
            /\ prevState' = state
            /\ lastLifecycle' = IF r.result.action \in {"start_visit", "complete_visit"}
                                THEN r.result.action ELSE lastLifecycle
            /\ scenario' = ScenarioNext(IF bird_detected THEN "detected" ELSE "clear")
            /\ scenarioB' = ScenarioBNext(IF bird_detected THEN "detected" ELSE "clear")
            /\ instructions' = Record(r.result,
                    ScenarioNext(IF bird_detected THEN "detected" ELSE "clear") >= 0)
            /\ clock' = clock + dt
    /\ UNCHANGED <<cfgVars, species_stats, workerVars>>
    /\ UNCHANGED <<queueVars, sideVars>>

\* One iteration in which _detect_birds raises: run()'s except clause logs,
\* sleeps one second and goes on; process_detection is not reached.
TickAdapterError ==
    /\ clock <= horizon
    /\ faults < MaxFaults
    /\ faults' = faults + 1
    /\ \E dt \in 1..MaxStep : clock' = clock + dt
    /\ result' = NoResult
    /\ lastTick' = "adapter_error"
    /\ prevState' = state
    /\ scenario' = -1
    /\ scenarioB' = ScenarioBNext("adapter_error")
    /\ instructions' = <<>>
    /\ UNCHANGED <<engineVars, visits, lastLifecycle, cfgVars, storeVars, workerVars>>
    /\ UNCHANGED <<queueVars, sideVars>>

\* ---- _connect_camera
\* Calls of _connect_camera in one run (initialize, then reconnects).
MaxConnects == 3

\* backoff_seconds = 2, max_backoff = 60, while attempts < 10
BaseBackoff == 2
max_backoff == 60
MaxAttempts == 10

\* What one pass of the loop can meet: a frame read, a stream that opens but
\* yields no frame, a stream that does not open, an exception of cv2.
AttemptOutcomes == {"frame", "no_frame", "not_opened", "exception"}

\* Variant: the backoff doubles without a ceiling.
next_backoff_uncapped(b) == b * 2

\* min(backoff_seconds * 2, max_backoff)
next_backoff(b) == IF b * 2 < max_backoff THEN b * 2 ELSE max_backoff

\* A call of _connect_camera begins: its locals are set.
ConnectCamera ==
    /\ camPc = "idle"
    /\ connectCalls < MaxConnects
    /\ connectCalls' = connectCalls + 1
    /\ camPc' = "connecting"
    /\ backoff_seconds' = BaseBackoff
    /\ attempts' = 0
    /\ slept' = <<>>
    /\ lastAttempt' = "none"
    /\ connectResult' = "pending"
    /\ UNCHANGED <<camera_health, loopVars, handleVars, backendVars, queueVars,
                   selectVars, scriptVars>>

\* Connections a capture object holds.
open_count(capture) == IF capture = "opened" THEN 1 ELSE 0

\* self.cap = cv2.VideoCapture(url): the capture is constructed, and with it
\* the connection opened, while self.cap is still bound to the capture of
\* before; that one is dropped when the name is bound anew. A constructor
\* that raises leaves self.cap as it was.
rebind_cap(old, seen) ==
    CASE seen \in {"frame", "no_frame"} ->
            [cap |-> "opened", peak |-> open_count(old) + 1]
      [] seen = "not_opened" -> [cap |-> "unopened", peak |-> open_count(old)]
      [] seen = "exception" -> [cap |-> old, peak |-> open_count(old)]

\* One pass of the while loop; the pass that uses up the last attempt also
\* leaves the loop, reports the camera 'disconnected' and returns False.
ConnectAttempt ==
    /\ camPc = "connecting"
    /\ attempts < MaxAttempts
    /\ \E seen \in AttemptOutcomes :
         /\ lastAttempt' = seen
         /\ cap' = rebind_cap(cap, seen).cap
         /\ cap_peak' = rebind_cap(cap, seen).peak
         /\ IF seen = "frame"
            THEN /\ camera_health' = "connected"
                 /\ consecutive_failures' = 0
                 /\ streak' = 0
                 /\ connectResult' = "true"
                 /\ camPc' = "idle"
                 /\ UNCHANGED <<backoff_seconds, attempts, slept>>
            ELSE /\ slept' = Append(slept, backoff_seconds)
                 /\ UNCHANGED <<consecutive_failures, streak>>
                 /\ backoff_seconds' = next_backoff(backoff_seconds)
                 /\ attempts' = attempts + 1
                 /\ IF attempts + 1 < MaxAttempts
                    THEN UNCHANGED <<camera_health, connectResult, camPc>>
                    ELSE /\ camera_health' = "disconnected"
                         /\ connectResult' = "false"
                         /\ camPc' = "idle"
    /\ UNCHANGED <<connectCalls, running, since_tick, lastIter, iterSleep,
                   grab_cap, grab_peak, grabber_alive,
                   backendVars, queueVars, selectVars, scriptVars>>

NextCamera == ConnectCamera \/ ConnectAttempt

\* ---- BirdDetector.run: rate limit, frame read, reconnect
\* Longest time in milliseconds one pass of the loop takes besides its sleep.
MaxIterMs == 1

\* DETECTION_INTERVAL_MS, time.sleep(0.01), consecutive_failures >= 10
DETECTION_INTERVAL_MS == 500
LoopSleepMs == 10
FailureThreshold == 10

\* Variant: a single failed read is enough.
reconnect_due_at_once(failures) == failures >= 1

\* if self.consecutive_failures >= 10
reconnect_due(failures) == failures >= FailureThreshold

\* now_ms - last_detection_time after ms more milliseconds, as far as the
\* comparison with the interval can tell.
Elapse(since, ms) ==
    IF since + ms < DETECTION_INTERVAL_MS THEN since + ms ELSE DETECTION_INTERVAL_MS

\* run_detector: initialize() connects the camera, then run() is entered.
Initialize ==
    /\ ~running
    /\ connectCalls = 0
    /\ ConnectCamera

RunStart ==
    /\ ~running
    /\ camPc = "idle"
    /\ connectResult = "true"
    /\ lastIter # "cleanup"
    /\ running' = TRUE
    /\ UNCHANGED <<camPc, backoff_seconds, attempts, slept, lastAttempt, connectResult,
                   camera_health, connectCalls, consecutive_failures, streak,
                   since_tick, lastIter, iterSleep, handleVars, backendVars, queueVars,
                   selectVars, scriptVars>>

\* One pass of run's while loop up to the detector call: too early (sleep and
\* continue), a failed read (count, reconnect at the threshold, continue), or
\* a frame (the tick).
RunIteration ==
    /\ running
    /\ camPc = "idle"
    /\ \E d \in 0..MaxIterMs :
         IF since_tick < DETECTION_INTERVAL_MS
         THEN /\ lastIter' = "wait"
              /\ iterSleep' = LoopSleepMs
              /\ since_tick' = Elapse(since_tick, LoopSleepMs + d)
              /\ UNCHANGED <<consecutive_failures, streak, camPc, backoff_seconds,
                             attempts, slept, lastAttempt, connectResult,
                             camera_health, connectCalls>>
         ELSE \/ /\ lastIter' = "tick"            \* ret is True
                 /\ iterSleep' = 0
                 /\ consecutive_failures' = 0
                 /\ streak' = 0
                 /\ since_tick' = d
                 /\ UNCHANGED <<camPc, backoff_seconds, attempts, slept, lastAttempt,
                                connectResult, camera_health, connectCalls>>
              \/ /\ lastIter' = "read_failed"     \* ret is False
                 /\ iterSleep' = 0
                 /\ consecutive_failures' = consecutive_failures + 1
                 /\ streak' = streak + 1
                 /\ UNCHANGED since_tick
                 /\ IF reconnect_due(consecutive_failures + 1)
                    THEN /\ connectCalls < MaxConnects
                         /\ connectCalls' = connectCalls + 1
                         /\ camera_health' = "disconnected"
                         /\ camPc' = "connecting"
                         /\ backoff_seconds' = BaseBackoff
                         /\ attempts' = 0
                         /\ slept' = <<>>
                         /\ lastAttempt' = "none"
                         /\ connectResult' = "pending"
                    ELSE UNCHANGED <<camPc, backoff_seconds, attempts, slept,
                                     lastAttempt, connectResult, camera_health,
                                     connectCalls>>
    /\ UNCHANGED <<running, handleVars, backendVars, queueVars, selectVars, scriptVars>>

NextLoop == Initialize \/ ConnectAttempt \/ RunStart \/ RunIteration

\* run's loop is left (running set to False by stop, or KeyboardInterrupt)
\* and cleanup is called: if self.cap: self.cap.release().
Cleanup ==
    /\ running
    /\ camPc = "idle"
    /\ running' = FALSE
    /\ lastIter' = "cleanup"
    /\ iterSleep' = 0
    /\ camera_health' = "disconnected"
    /\ cap' = IF cap = "None" THEN "None" ELSE "released"
    /\ cap_peak' = open_count(cap)
    /\ UNCHANGED <<camPc, backoff_seconds, attempts, slept, lastAttempt, connectResult,
                   connectCalls, consecutive_failures, streak, since_tick,
                   grab_cap, grab_peak, grabber_alive,
                   backendVars, queueVars, selectVars, scriptVars>>

\* ---- capture script: frame_grabber's capture
\* What a pass of frame_grabber's loop meets: a stream that does not open,
\* a read that fails, a frame.
GrabOutcomes == {"not_opened", "read_failed", "frame"}

\* One pass of frame_grabber's while loop, as far as cap goes: a capture is
\* constructed if there is none or it is not opened; a failed read releases
\* it and sets cap to None.
GrabberPass ==
    /\ grabber_alive
    /\ \E seen \in GrabOutcomes :
         IF grab_cap # "opened"
         THEN /\ grab_peak' = IF seen = "not_opened" THEN 0 ELSE 1
              /\ grab_cap' = CASE seen = "not_opened" -> "unopened"
                               [] seen = "read_failed" -> "None"
                               [] seen = "frame" -> "opened"
         ELSE /\ seen # "not_opened"
              /\ grab_peak' = 1
              /\ grab_cap' = IF seen = "read_failed" THEN "None" ELSE "opened"
    /\ UNCHANGED <<camPc, backoff_seconds, attempts, slept, lastAttempt, connectResult,
                   camera_health, connectCalls, loopVars, cap, cap_peak, grabber_alive,
                   backendVars, queueVars, selectVars, scriptVars>>

\* analysis_stop_event is set: the loop is left; if cap: cap.release().
GrabberExit ==
    /\ grabber_alive
    /\ grabber_alive' = FALSE
    /\ grab_cap' = IF grab_cap = "None" THEN "None" ELSE "released"
    /\ grab_peak' = open_count(grab_cap)
    /\ UNCHANGED <<camPc, backoff_seconds, attempts, slept, lastAttempt, connectResult,
                   camera_health, connectCalls, loopVars, cap, cap_peak,
                   backendVars, queueVars, selectVars, scriptVars>>

NextHandles ==
    \/ Initialize
    \/ ConnectAttempt
    \/ RunStart
    \/ RunIteration
    \/ Cleanup
    \/ GrabberPass
    \/ GrabberExit

\* ---- the detector's writes, as the store's tables see them
\* Identifiers of Visits and of captures, and writes in a run.
MaxStoreIds == 2
MaxWrites == 4

\* Visit.to_dict of an open and of a closed Visit.
VisitPayloads ==
    {[id |-> i, status |-> "active", end_time |-> NoTime] : i \in 1..MaxStoreIds}
    \cup {[id |-> i, status |-> "analyzing", end_time |-> 1] : i \in 1..MaxStoreIds}

\* capture_data
CapturePayloads == [id : 1..MaxStoreIds, visit_id : 1..MaxStoreIds]

\* The tables keep one row per identifier: an insert whose id is taken raises.
id_taken(tbl, id) == \E k \in 1..Len(tbl) : tbl[k].id = id

\* table(...).insert(row).execute()
table_insert(tbl, row) ==
    IF id_taken(tbl, row.id) THEN [raised |-> TRUE, tbl |-> tbl]
    ELSE [raised |-> FALSE, tbl |-> Append(tbl, row)]

\* table(...).update(row).eq('id', id).execute()
table_update(tbl, id, row) ==
    [k \in 1..Len(tbl) |-> IF tbl[k].id = id THEN row ELSE tbl[k]]

\* _create_visit_in_db: ok is whether the request reaches the store.
create_visit_write(tbl, visit_data, ok) ==
    IF ok THEN table_insert(tbl, visit_data).tbl ELSE tbl

\* _capture_and_store's insert of the capture row.
capture_write(tbl, data, ok) ==
    IF ok THEN table_insert(tbl, data).tbl ELSE tbl

\* Variant: the closed Visit is sent as a new row.
finalize_write_inserts(tbl, visit_data, ok) ==
    IF ok THEN table_insert(tbl, visit_data).tbl ELSE tbl

\* _finalize_visit
finalize_write(tbl, visit_data, ok) ==
    IF ok THEN table_update(tbl, visit_data.id, visit_data) ELSE tbl

StoreCreate ==
    /\ writes < MaxWrites
    /\ \E v \in VisitPayloads, ok \in BOOLEAN :
         /\ v.status = "active"
         /\ tblVisits' = create_visit_write(tblVisits, v, ok)
         /\ lastWrite' = <<"create", v, ok>>
         /\ repeated' = (Len(lastWrite) = 3 /\ lastWrite[1] = "create" /\ lastWrite[2] = v)
    /\ writes' = writes + 1
    /\ UNCHANGED <<tblCaptures, frameVars, lockVars, metricsVars, normVars, pilotVars, backendVars, queueVars, selectVars,
                   cameraVars>>

StoreCapture ==
    /\ writes < MaxWrites
    /\ \E c \in CapturePayloads, ok \in BOOLEAN :
         /\ tblCaptures' = capture_write(tblCaptures, c, ok)
         /\ lastWrite' = <<"capture", c, ok>>
         /\ repeated' = (Len(lastWrite) = 3 /\ lastWrite[1] = "capture" /\ lastWrite[2] = c)
    /\ writes' = writes + 1
    /\ UNCHANGED <<tblVisits, frameVars, lockVars, metricsVars, normVars, pilotVars, backendVars, queueVars, selectVars,
                   cameraVars>>

StoreFinalize ==
    /\ writes < MaxWrites
    /\ \E v \in VisitPayloads, ok \in BOOLEAN :
         /\ v.status = "analyzing"
         /\ tblVisits' = finalize_write(tblVisits, v, ok)
         /\ lastWrite' = <<"finalize", v, ok>>
         /\ repeated' = (Len(lastWrite) = 3 /\ lastWrite[1] = "finalize" /\ lastWrite[2] = v)
    /\ writes' = writes + 1
    /\ UNCHANGED <<tblCaptures, frameVars, lockVars, metricsVars, normVars, pilotVars, backendVars, queueVars, selectVars,
                   cameraVars>>

NextStore == StoreCreate \/ StoreCapture \/ StoreFinalize

\* ---- analyzer script: the per-image lock file
\* Analyzer processes, images and lock calls in a run.
MaxProcs == 2
MaxImages == 2
MaxLockOps == 5

\* What the file system does to a call: nothing, an error other than
\* FileExistsError from os.open, an error from the write that follows the
\* creation, an error from unlink.
LockOutcomes == {"ok", "open_error", "write_error"}
UnlockOutcomes == {"ok", "unlink_error"}

\* Variant: os.open without O_EXCL, which opens a lock file that is there.
try_lock_no_excl(files, image_path, o) ==
    IF o = "open_error" THEN [files |-> files, ret |-> "None"]
    ELSE IF o = "write_error" THEN [files |-> files \cup {image_path}, ret |-> "None"]
    ELSE [files |-> files \cup {image_path}, ret |-> "path"]

\* try_lock: os.open(lock_path, O_CREAT | O_EXCL | O_WRONLY), then the write.
try_lock(files, image_path, o) ==
    IF image_path \in files \/ o = "open_error" THEN [files |-> files, ret |-> "None"]
    ELSE IF o = "write_error" THEN [files |-> files \cup {image_path}, ret |-> "None"]
    ELSE [files |-> files \cup {image_path}, ret |-> "path"]

\* release_lock: if lock_path.exists(): lock_path.unlink(), errors logged.
release_lock(files, image_path, o) ==
    IF image_path \in files /\ o = "ok" THEN files \ {image_path} ELSE files

\* process_one: lock_path = try_lock(image_path); if None, return.
TryLock ==
    /\ lockOps < MaxLockOps
    /\ \E p \in 1..MaxProcs, img \in 1..MaxImages, o \in LockOutcomes :
         LET r == try_lock(lock_files, img, o) IN
         /\ holding[p] = 0
         /\ lock_files' = r.files
         /\ lock_ret' = [lock_ret EXCEPT ![p] = r.ret]
         /\ holding' = [holding EXCEPT ![p] = IF r.ret = "path" THEN img ELSE 0]
         /\ lastLockOp' = <<"try_lock", p, img, o>>
    /\ lockOps' = lockOps + 1
    /\ UNCHANGED <<frameVars, tableVars, metricsVars, normVars, pilotVars, backendVars, queueVars,
                   selectVars, cameraVars>>

\* process_one: finally: release_lock(lock_path)
ReleaseLock ==
    /\ lockOps < MaxLockOps
    /\ \E p \in 1..MaxProcs, o \in UnlockOutcomes :
         /\ holding[p] # 0
         /\ lock_files' = release_lock(lock_files, holding[p], o)
         /\ holding' = [holding EXCEPT ![p] = 0]
         /\ lastLockOp' = <<"release_lock", p, holding[p], o>>
    /\ lockOps' = lockOps + 1
    /\ UNCHANGED <<lock_ret, frameVars, tableVars, metricsVars, normVars, pilotVars, backendVars,
                   queueVars, selectVars, cameraVars>>

NextLock == TryLock \/ ReleaseLock

\* ---- the scripts' metrics file: save_metrics and load_metrics
\* Entries of a metrics record's visits list, the largest count of a
\* species, and metrics calls in a run.
MaxMetricVisits == 1
MaxCount == 1
MaxMetricsOps == 3

MetricSpecies == {"robin", "unknown"}

\* The entry update_metrics appends, as far as its values differ in kind.
MetricEntries ==
    {[id |-> "a", species_norm |-> sp, needs_review |-> (sp = "unknown"),
      user_override_species |-> "None"] : sp \in MetricSpecies}

\* The dicts update_metrics hands to save_metrics.
MetricsValues ==
    [total_visits : 0..MaxMetricVisits,
     visits : UNION {[1..n -> MetricEntries] : n \in 0..MaxMetricVisits},
     species_counts : UNION {[S -> 1..MaxCount] : S \in SUBSET MetricSpecies}]

\* load_metrics' fallback
DefaultMetrics == [total_visits |-> 0, visits |-> <<>>, species_counts |-> <<>>]

\* json.dump: the document as the text holds it, every value under the
\* name of its JSON type and an object as the list of its members.
dump_entry(e) ==
    <<"object", << <<"id", <<"string", e.id>> >>,
                   <<"species_norm", <<"string", e.species_norm>> >>,
                   <<"needs_review", IF e.needs_review THEN <<"true">> ELSE <<"false">> >>,
                   <<"user_override_species", <<"null">> >> >> >>

RECURSIVE dump_counts(_)
dump_counts(counts) ==
    IF DOMAIN counts = {} THEN <<>>
    ELSE LET k == CHOOSE x \in DOMAIN counts : TRUE
         IN <<<<k, <<"number", counts[k]>> >>>>
            \o dump_counts([x \in DOMAIN counts \ {k} |-> counts[x]])

json_dump(m) ==
    <<"object", << <<"total_visits", <<"number", m.total_visits>> >>,
                   <<"visits", <<"array", [i \in 1..Len(m.visits) |->
                                               dump_entry(m.visits[i])]>> >>,
                   <<"species_counts", <<"object", dump_counts(m.species_counts)>> >> >> >>

\* json.load: number, string, true, false and null become int, str, bool and
\* None, an array a list, an object the dict of its members, a later member
\* of a name replacing an earlier one.
RECURSIVE json_load(_)
json_load(doc) ==
    CASE doc[1] \in {"number", "string"} -> doc[2]
      [] doc[1] = "true" -> TRUE
      [] doc[1] = "false" -> FALSE
      [] doc[1] = "null" -> "None"
      [] doc[1] = "array" -> [i \in 1..Len(doc[2]) |-> json_load(doc[2][i])]
      [] doc[1] = "object" ->
            LET members == doc[2]
                last(k) == CHOOSE i \in 1..Len(members) :
                              /\ members[i][1] = k
                              /\ \A j \in (i + 1)..Len(members) : members[j][1] # k
            IN [k \in {members[i][1] : i \in 1..Len(members)} |->
                    json_load(members[last(k)][2])]

\* What the file system does to a call.
SaveOutcomes == {"ok", "open_error", "write_error"}
LoadOutcomes == {"ok", "read_error"}

\* save_metrics: open("w") empties the file before json.dump writes; errors
\* are logged and swallowed.
save_metrics(file, metrics, o) ==
    CASE o = "ok" -> <<"json", json_dump(metrics)>>
      [] o = "open_error" -> file
      [] o = "write_error" -> <<"invalid">>

\* Variant: no try around the read, so what json.load raises leaves the function.
load_metrics_unguarded(file, o) ==
    IF file[1] = "missing" THEN [raised |-> FALSE, value |-> DefaultMetrics]
    ELSE IF o = "read_error" \/ file[1] = "invalid"
         THEN [raised |-> TRUE, value |-> DefaultMetrics]
         ELSE [raised |-> FALSE, value |-> json_load(file[2])]

\* load_metrics
load_metrics(file, o) ==
    IF file[1] = "missing" \/ o = "read_error" \/ file[1] = "invalid"
    THEN [raised |-> FALSE, value |-> DefaultMetrics]
    ELSE [raised |-> FALSE, value |-> json_load(file[2])]

SaveMetrics ==
    /\ metricsOps < MaxMetricsOps
    /\ \E m \in MetricsValues, o \in SaveOutcomes :
         /\ metrics_file' = save_metrics(metrics_file, m, o)
         /\ saved' = IF o = "ok" THEN m ELSE saved
         /\ lastMetricsOp' = <<"save_metrics", o>>
    /\ metricsOps' = metricsOps + 1
    /\ UNCHANGED <<loaded, frameVars, tableVars, lockVars, normVars, pilotVars, backendVars,
                   queueVars, selectVars, cameraVars>>

LoadMetrics ==
    /\ metricsOps < MaxMetricsOps
    /\ \E o \in LoadOutcomes :
         /\ loaded' = load_metrics(metrics_file, o)
         /\ lastMetricsOp' = <<"load_metrics", o>>
    /\ metricsOps' = metricsOps + 1
    /\ UNCHANGED <<metrics_file, saved, frameVars, tableVars, lockVars, normVars, pilotVars,
                   backendVars, queueVars, selectVars, cameraVars>>

NextMetrics == SaveMetrics \/ LoadMetrics

\* ---- update_metrics: load, replace the entry of the image, count, save
\* update_metrics calls in a run.
MaxUpdates == 3

\* Digests of image contents.
Digests == {"a", "b"}

\* entry = {"id": visit_id, ..., "species_norm": species_norm, ...}
metric_entry(visit_id, species_norm) ==
    [id |-> visit_id, species_norm |-> species_norm,
     needs_review |-> (species_norm = "unknown"), user_override_species |-> "None"]

\* del counts[key]
dict_del(counts, key) == [k \in DOMAIN counts \ {key} |-> counts[k]]

\* counts[key] = counts.get(key, 0) + 1
dict_incr(counts, key) ==
    [k \in DOMAIN counts \cup {key} |->
        IF k = key THEN (IF key \in DOMAIN counts THEN counts[key] ELSE 0) + 1
        ELSE counts[k]]

\* The first index of visits whose id is visit_id, 0 when there is none.
find_visit(visits_list, visit_id) ==
    IF \E i \in 1..Len(visits_list) : visits_list[i].id = visit_id
    THEN CHOOSE i \in 1..Len(visits_list) :
            /\ visits_list[i].id = visit_id
            /\ \A j \in 1..(i - 1) : visits_list[j].id # visit_id
    ELSE 0

\* del visits[to_remove]
list_del(visits_list, idx) ==
    SubSeq(visits_list, 1, idx - 1) \o SubSeq(visits_list, idx + 1, Len(visits_list))

\* Variant: an entry of the same image is not looked for.
update_metrics_appends(metrics, visit_id, species_norm) ==
    [total_visits |-> metrics.total_visits + 1,
     visits |-> Append(metrics.visits, metric_entry(visit_id, species_norm)),
     species_counts |-> dict_incr(metrics.species_counts, species_norm)]

\* update_metrics between load_metrics and save_metrics.
update_metrics(metrics, visit_id, species_norm) ==
    LET idx == find_visit(metrics.visits, visit_id)
        old_norm == metrics.visits[idx].species_norm
        counts1 == IF idx = 0 \/ old_norm \notin DOMAIN metrics.species_counts
                   THEN metrics.species_counts
                   ELSE IF metrics.species_counts[old_norm] - 1 <= 0
                        THEN dict_del(metrics.species_counts, old_norm)
                        ELSE [metrics.species_counts EXCEPT ![old_norm] = @ - 1]
        total1 == IF idx = 0 THEN metrics.total_visits
                  ELSE IF metrics.total_visits - 1 > 0 THEN metrics.total_visits - 1 ELSE 0
        visits1 == IF idx = 0 THEN metrics.visits ELSE list_del(metrics.visits, idx)
    IN [total_visits |-> total1 + 1,
        visits |-> Append(visits1, metric_entry(visit_id, species_norm)),
        species_counts |-> dict_incr(counts1, species_norm)]

\* One call of update_metrics.
UpdateMetrics ==
    /\ metricsOps < MaxUpdates
    /\ \E d \in Digests, sp \in MetricSpecies, lo \in LoadOutcomes, so \in SaveOutcomes :
         LET l == load_metrics(metrics_file, lo)
             m == update_metrics(l.value, d, sp)
         IN /\ loaded' = l
            /\ metrics_file' = save_metrics(metrics_file, m, so)
            /\ saved' = IF so = "ok" THEN m ELSE saved
            /\ lastMetricsOp' = <<"update_metrics", d, sp, lo, so>>
    /\ metricsOps' = metricsOps + 1
    /\ UNCHANGED <<frameVars, tableVars, lockVars, normVars, pilotVars, backendVars,
                   queueVars, selectVars, cameraVars>>

\* ---- capture script: the main loop of run_capture_and_analyse
CAPTURE_GAP_SEC == 15
BIRD_ABSENCE_TIMEOUT == 5

\* DETECTION_INTERVAL is 0.5 s. The clock is read in whole seconds here, so
\* (now - last_detection_timestamp) >= 0.5 is a comparison of doubled values.
DetectionIntervalHalfSec == 1

\* time.time() when the loop starts, the seconds of a run that are followed,
\* and the longest time between two readings of the clock.
StartWall == 20
MaxWallSpan == 16
MaxPassSec == 2

\* Seconds from the start of the loop to the change of date, in the runs
\* that see one.
MidnightAfter == 4

\* date.today() at a reading of the clock, as a day number.
date_today(now) == IF now >= midnight THEN 1 ELSE 0

run_detection(now) ==
    2 * (now - last_detection_timestamp) >= DetectionIntervalHalfSec

\* What a pass finds: no frame in the holder yet, or a frame in which the
\* detector, when it is run, accepts some box or none.
PassInputs == {"no_frame", "detected", "clear"}

\* What the file system does to the pass's snapshot: ensure_dir raises, or
\* cv2.imwrite writes the file or returns False.
SnapshotOutcomes == {"saved", "not_written", "mkdir_raises"}

\* One pass of the while loop, from the read of the holder to the date check.
MainLoopPass ==
    /\ mainPc = "running"
    /\ \E dt \in 0..MaxPassSec : \E input \in PassInputs : \E quit \in BOOLEAN :
       LET now == wall + dt
           detected_birds == input = "detected" /\ run_detection(now)
           new_capture == /\ detected_birds
                          /\ ~bird_present
                          /\ now - script_last_capture_time >= CAPTURE_GAP_SEC
       IN \E fs \in IF new_capture THEN SnapshotOutcomes ELSE {"saved"} :
        LET present == IF detected_birds THEN TRUE
                       ELSE IF bird_present
                               /\ now - last_bird_detection_time >= BIRD_ABSENCE_TIMEOUT
                            THEN FALSE ELSE bird_present
            new_day == date_today(now) # today
        IN /\ now <= StartWall + MaxWallSpan
           /\ wall' = now
           /\ UNCHANGED midnight
           /\ IF input = "no_frame"
              THEN /\ lastPass' = "no_frame"
                   /\ UNCHANGED <<today, unique_count, script_last_capture_time,
                                  last_bird_detection_time, bird_present,
                                  last_detection_timestamp, puts, mainPc>>
              ELSE /\ lastPass' = IF detected_birds THEN "detected"
                                  ELSE IF run_detection(now) THEN "clear"
                                  ELSE "skipped"
                   /\ last_detection_timestamp' =
                         IF run_detection(now) THEN now ELSE last_detection_timestamp
                   /\ IF new_capture /\ fs = "mkdir_raises"
                      THEN /\ unique_count' = unique_count + 1
                           /\ last_bird_detection_time' = now
                           /\ mainPc' = "exited"
                           /\ UNCHANGED <<today, script_last_capture_time,
                                          bird_present, puts>>
                      ELSE /\ puts' = IF new_capture
                                      THEN Append(puts, [time |-> now, day |-> today,
                                                         number |-> unique_count + 1,
                                                         saved |-> fs = "saved"])
                                      ELSE puts
                           /\ mainPc' = IF quit THEN "exited" ELSE "running"
                           /\ IF ~quit /\ new_day
                              THEN /\ today' = date_today(now)
                                   /\ unique_count' = 0
                                   /\ script_last_capture_time' = 0
                                   /\ last_bird_detection_time' = 0
                                   /\ bird_present' = FALSE
                              ELSE /\ today' = today
                                   /\ unique_count' = IF new_capture
                                                      THEN unique_count + 1
                                                      ELSE unique_count
                                   /\ script_last_capture_time' =
                                         IF new_capture THEN now
                                         ELSE script_last_capture_time
                                   /\ last_bird_detection_time' =
                                         IF detected_birds THEN now
                                         ELSE last_bird_detection_time
                                   /\ bird_present' = present
    /\ UNCHANGED <<frameVars, tableVars, lockVars, metricsVars, normVars, analyzerVars,
                   backendVars, queueVars, selectVars, cameraVars>>

\* ---- analyzer script: process_one, called by loop_once for every image
\* process_one calls in a run.
MaxProcessCalls == 4

\* What the file system does to the writes of the analysis branch: nothing,
\* an error in write_html_report (safe_mkdir, write_text), an error in
\* write_dashboard_html's mkdir after save_metrics has returned.
BodyOutcomes == {"ok", "report_raises", "dashboard_raises"}

\* move_with_retries: the image is moved to _no_bird, or all tries failed.
MoveOutcomes == {"moved", "not_moved"}

\* set(v.get("id") for v in metrics.get("visits", []))
visit_ids(metrics) == {metrics.visits[i].id : i \in 1..Len(metrics.visits)}

\* One call of process_one, made by loop_once for an image that
\* iter_new_images yields and that is not in processed.
ProcessOne ==
    /\ processCalls < MaxProcessCalls
    /\ processCalls' = processCalls + 1
    /\ \E image_path \in in_root \ processed_images : \E lo \in LockOutcomes :
       LET lock == try_lock(lock_files, image_path, lo)
           event_id == image_digest[image_path]
       IN IF lock.ret = "None"
          THEN /\ lock_files' = lock.files
               /\ lastProcess' = <<image_path, "no_lock">>
               /\ UNCHANGED <<metrics_file, in_root, processed_images, existing_ids,
                              analysed_count>>
          ELSE \E uo \in UnlockOutcomes :
               /\ lock_files' = release_lock(lock.files, image_path, uo)
               /\ IF event_id \in existing_ids
                  THEN /\ processed_images' = processed_images \cup {image_path}
                       /\ lastProcess' = <<image_path, "skip">>
                       /\ UNCHANGED <<metrics_file, in_root, existing_ids,
                                      analysed_count>>
                  ELSE IF event_id \in bird_digests
                  THEN \E body \in BodyOutcomes, species \in MetricSpecies,
                          mlo \in LoadOutcomes, mso \in SaveOutcomes :
                       LET metrics == update_metrics(load_metrics(metrics_file, mlo).value,
                                                     event_id, species)
                       IN /\ analysed_count' = [analysed_count EXCEPT ![event_id] = @ + 1]
                          /\ metrics_file' = IF body = "report_raises" THEN metrics_file
                                             ELSE save_metrics(metrics_file, metrics, mso)
                          /\ existing_ids' = IF body = "ok"
                                             THEN existing_ids \cup {event_id}
                                             ELSE existing_ids
                          /\ processed_images' = IF body = "ok"
                                                 THEN processed_images \cup {image_path}
                                                 ELSE processed_images
                          /\ lastProcess' = <<image_path, IF body = "ok" THEN "success"
                                                          ELSE "exception">>
                          /\ UNCHANGED in_root
                  ELSE \E mv \in MoveOutcomes :
                       /\ in_root' = IF mv = "moved" THEN in_root \ {image_path}
                                     ELSE in_root
                       /\ processed_images' = processed_images \cup {image_path}
                       /\ lastProcess' = <<image_path, "no_bird">>
                       /\ UNCHANGED <<metrics_file, existing_ids, analysed_count>>
    /\ UNCHANGED <<image_digest, bird_digests, start_ids>>
    /\ UNCHANGED <<holding, lock_ret, lastLockOp, lockOps, saved, loaded, lastMetricsOp,
                   metricsOps, frameVars, tableVars, normVars, captureVars, backendVars,
                   queueVars, selectVars, cameraVars>>

\* ---- the scripts' normalize_species; a string is the list of its characters
\* Longest name made up from the alphabet below.
MaxNameLen == 3

NoneName == <<"None">>
Pending == <<"pending">>

Alphabet == {"a", "s", "S", ",", " "}

\* The names of the scripts' own test, and every short string over the alphabet.
TestNames ==
    {<<"s", "p", "a", "r", "r", "o", "w", "s">>,
     <<"B", "l", "u", "e", " ", "J", "a", "y", ",", " ", "C", "a", "r", "d", "i", "n", "a", "l">>,
     <<"r", "o", "b", "i", "n", " ", "a", "n", "d", " ", "s", "p", "a", "r", "r", "o", "w">>,
     <<"h", "o", "u", "s", "e", " ", "s", "p", "a", "r", "r", "o", "w", "s">>,
     <<"H", "o", "u", "s", "e", " ", "S", "p", "a", "r", "r", "o", "w">>,
     <<"G", "r", "e", "a", "t", " ", "T", "i", "t">>,
     <<>>, NoneName}

Names == TestNames \cup UNION {[1..n -> Alphabet] : n \in 1..MaxNameLen}

LowerLetters ==
    {"a", "b", "c", "d", "e", "f", "g", "h", "i", "j", "k", "l", "m",
     "n", "o", "p", "q", "r", "s", "t", "u", "v", "w", "x", "y", "z"}

Digits == {"0", "1", "2", "3", "4", "5", "6", "7", "8", "9"}

\* str.lower on the capitals that occur
LowerOf == [B |-> "b", C |-> "c", G |-> "g", H |-> "h", J |-> "j", S |-> "s", T |-> "t"]

lower(s) == [i \in 1..Len(s) |-> IF s[i] \in DOMAIN LowerOf THEN LowerOf[s[i]] ELSE s[i]]

\* str.strip
RECURSIVE strip(_)
strip(s) ==
    IF s = <<>> THEN s
    ELSE IF Head(s) = " " THEN strip(Tail(s))
    ELSE IF s[Len(s)] = " " THEN strip(SubSeq(s, 1, Len(s) - 1))
    ELSE s

\* re.sub(r"[^a-z0-9\s]", "", s)
Kept(c) == c \in LowerLetters \cup Digits \cup {" "}

\* sub in s
Contains(s, sub) ==
    \E i \in 1..(Len(s) - Len(sub) + 1) : SubSeq(s, i, i + Len(sub) - 1) = sub

\* s.endswith(suffix)
endswith(s, suffix) ==
    Len(s) >= Len(suffix) /\ SubSeq(s, Len(s) - Len(suffix) + 1, Len(s)) = suffix

\* synonyms.get(s, s)
synonyms_get(s) ==
    IF s = <<"s", "p", "a", "r", "r", "o", "w">> THEN <<"h", "o", "u", "s", "e", " ", "s", "p", "a", "r", "r", "o", "w">>
    ELSE IF s = <<"h", "o", "u", "s", "e", " ", "s", "p", "a", "r", "r", "o", "w", "s">> THEN <<"h", "o", "u", "s", "e", " ", "s", "p", "a", "r", "r", "o", "w">>
    ELSE s

normalize_species(name) ==
    IF name = NoneName \/ name = <<>> THEN <<"u", "n", "k", "n", "o", "w", "n">>
    ELSE LET s1 == SelectSeq(lower(strip(name)), Kept)
         IN IF Contains(s1, <<",">>) \/ Contains(s1, <<" ", "a", "n", "d", " ">>) THEN <<"m", "u", "l", "t", "i">>
            ELSE synonyms_get(IF endswith(s1, <<"s">>) /\ ~endswith(s1, <<"s", "s">>)
                              THEN SubSeq(s1, 1, Len(s1) - 1) ELSE s1)

Normalize ==
    /\ normalized = Pending
    /\ normalized' = normalize_species(name_in)
    /\ UNCHANGED <<name_in, frameVars, tableVars, lockVars, metricsVars, pilotVars,
                   backendVars, queueVars, selectVars, cameraVars>>

\* ---- capture script: frame_grabber and the main loop share frame_holder
\* Frames the camera delivers in a run, and reads of the holder by the main loop.
MaxFrames == 3
MaxReads == 3

\* Variant: the with statement takes nothing, so entering never waits.
lock_free_always(owner) == TRUE

\* threading.Lock.acquire returns once no thread holds the lock.
lock_free(owner) == owner = "none"

\* ret, frame = cap.read(): a failed read is retried after reopening.
GrabRead ==
    /\ grabPc = "read"
    /\ \/ /\ lastWritten + 1 <= MaxFrames
          /\ grabbed' = lastWritten + 1
          /\ grabPc' = "acquire"
       \/ UNCHANGED <<grabbed, grabPc>>
    /\ UNCHANGED <<consPc, frame_lock, holder_frame, frame, lastWritten, framesRead,
                   backendVars, queueVars, selectVars, cameraVars, tableVars, lockVars,
                   metricsVars, normVars, pilotVars>>

\* with holder["lock"]:
GrabAcquire ==
    /\ grabPc = "acquire"
    /\ lock_free(frame_lock)
    /\ frame_lock' = "grabber"
    /\ grabPc' = "write"
    /\ UNCHANGED <<consPc, holder_frame, grabbed, frame, lastWritten, framesRead,
                   backendVars, queueVars, selectVars, cameraVars, tableVars, lockVars,
                   metricsVars, normVars, pilotVars>>

\* holder["frame"] = frame
GrabWrite ==
    /\ grabPc = "write"
    /\ holder_frame' = grabbed
    /\ lastWritten' = grabbed
    /\ grabPc' = "release"
    /\ UNCHANGED <<consPc, frame_lock, grabbed, frame, framesRead,
                   backendVars, queueVars, selectVars, cameraVars, tableVars, lockVars,
                   metricsVars, normVars, pilotVars>>

\* leaving the with block releases the lock
GrabRelease ==
    /\ grabPc = "release"
    /\ frame_lock' = "none"
    /\ grabPc' = "read"
    /\ UNCHANGED <<consPc, holder_frame, grabbed, frame, lastWritten, framesRead,
                   backendVars, queueVars, selectVars, cameraVars, tableVars, lockVars,
                   metricsVars, normVars, pilotVars>>

\* with frame_holder["lock"]:
ConsAcquire ==
    /\ consPc = "acquire"
    /\ framesRead < MaxReads
    /\ lock_free(frame_lock)
    /\ frame_lock' = "main"
    /\ consPc' = "read"
    /\ UNCHANGED <<grabPc, holder_frame, grabbed, frame, lastWritten, framesRead,
                   backendVars, queueVars, selectVars, cameraVars, tableVars, lockVars,
                   metricsVars, normVars, pilotVars>>

\* frame = frame_holder.get("frame")
ConsRead ==
    /\ consPc = "read"
    /\ frame' = holder_frame
    /\ framesRead' = framesRead + 1
    /\ consPc' = "release"
    /\ UNCHANGED <<grabPc, frame_lock, holder_frame, grabbed, lastWritten,
                   backendVars, queueVars, selectVars, cameraVars, tableVars, lockVars,
                   metricsVars, normVars, pilotVars>>

\* leaving the with block; the frame is used (or None is waited out) afterwards
ConsRelease ==
    /\ consPc = "release"
    /\ frame_lock' = "none"
    /\ consPc' = "acquire"
    /\ UNCHANGED <<grabPc, holder_frame, grabbed, frame, lastWritten, framesRead,
                   backendVars, queueVars, selectVars, cameraVars, tableVars, lockVars,
                   metricsVars, normVars, pilotVars>>

NextFrame ==
    \/ GrabRead \/ GrabAcquire \/ GrabWrite \/ GrabRelease
    \/ ConsAcquire \/ ConsRead \/ ConsRelease

\* ------------------------------------------- main.py, species_analyzer.py
SelectLimit == 10
SpeciesGuess == {"robin", "unknown"}
NoCapture == [is_best_capture |-> FALSE, image_url |-> "none"]

RECURSIVE Ascending(_)
Ascending(S) ==
    IF S = {} THEN <<>>
    ELSE LET m == CHOOSE x \in S : \A y \in S : x <= y
         IN <<m>> \o Ascending(S \ {m})

\* Variant: the worker also picks up rows of Visits that are still open.
select_analyzing_or_active(db) ==
    LET ids == Ascending({i \in 1..Len(db) : db[i].status \in {"active", "analyzing"}})
    IN SubSeq(ids, 1, IF Len(ids) < SelectLimit THEN Len(ids) ELSE SelectLimit)

\* select('id').eq('status', 'analyzing').limit(10)
select_analyzing(db) ==
    LET ids == Ascending({i \in 1..Len(db) : db[i].status = "analyzing"})
    IN SubSeq(ids, 1, IF Len(ids) < SelectLimit THEN Len(ids) ELSE SelectLimit)

update_species_stats(stats, species, ok) ==
    IF species = "unknown" \/ ~ok THEN stats
    ELSE [stats EXCEPT ![species] = @ + 1]

\* Variant: the label is written but the row keeps its status.
mark_visit_completed_keeps_status(id, species, summary, o) ==
    IF o.update
    THEN [dbVisits |-> UpdateRow(dbVisits, id,
                         [status |-> dbVisits[id].status, species |-> species,
                          summary |-> summary]),
          species_stats |-> update_species_stats(species_stats, species, o.stats)]
    ELSE [dbVisits |-> dbVisits, species_stats |-> species_stats]

\* _mark_visit_completed: the stats are touched only after the update went through.
mark_visit_completed(id, species, summary, o) ==
    IF o.update
    THEN [dbVisits |-> UpdateRow(dbVisits, id,
                         [status |-> "completed", species |-> species,
                          summary |-> summary]),
          species_stats |-> update_species_stats(species_stats, species, o.stats)]
    ELSE [dbVisits |-> dbVisits, species_stats |-> species_stats]

mark_visit_failed(id, error_message, o) ==
    IF o.update
    THEN [dbVisits |-> UpdateRow(dbVisits, id,
                         [status |-> "failed", species |-> "unknown",
                          summary |-> error_message]),
          species_stats |-> species_stats]
    ELSE [dbVisits |-> dbVisits, species_stats |-> species_stats]

\* The environment's answer to the worker's writes.
WriteOutcomes(species) ==
    {o \in [update : BOOLEAN, stats : BOOLEAN] :
        (species = "unknown" \/ ~o.update) => o.stats}

WriteFailures(o) == (IF o.update THEN 0 ELSE 1) + (IF o.stats THEN 0 ELSE 1)

\* analyze_visit returns: the worker goes to the next id of the pass, or sleeps.
Finish(id, w, o) ==
    /\ faults + WriteFailures(o) <= MaxFaults
    /\ faults' = faults + WriteFailures(o)
    /\ dbVisits' = w.dbVisits
    /\ species_stats' = w.species_stats
    /\ analysed' = id
    /\ workerBatch' = Tail(workerBatch)
    /\ workerPc' = IF Tail(workerBatch) = <<>> THEN "poll" ELSE "analyze"

\* run_analyzer_worker: the select of one pass (an exception sleeps and polls again).
WorkerPoll ==
    /\ workerPc = "poll"
    /\ \/ /\ workerBatch' = select_analyzing(dbVisits)
          /\ workerPc' = IF select_analyzing(dbVisits) = <<>> THEN "poll" ELSE "analyze"
          /\ UNCHANGED faults
       \/ /\ faults < MaxFaults
          /\ faults' = faults + 1
          /\ UNCHANGED <<workerBatch, workerPc>>
    /\ UNCHANGED <<engineVars, cfgVars, storeVars, tickVars, best_capture, attempt,
                   calls, failedCalls, analysed>>
    /\ UNCHANGED <<queueVars, sideVars>>

\* analyze_visit up to the first classifier call. The detections of a capture
\* are not part of this state, so any capture of the Visit may be the best one.
AnalyzeVisit ==
    /\ workerPc = "analyze"
    /\ LET id == Head(workerBatch) IN
       /\ calls' = 0
       /\ failedCalls' = 0
       /\ attempt' = 0
       /\ IF ~openai_client
          THEN /\ \E o \in WriteOutcomes("unknown") :
                    Finish(id, mark_visit_completed(id, "unknown", "not_configured", o), o)
               /\ UNCHANGED best_capture
          ELSE \/ /\ \E o \in WriteOutcomes("unknown") :   \* the captures select raises
                     /\ faults + 1 + WriteFailures(o) <= MaxFaults
                     /\ faults' = faults + 1 + WriteFailures(o)
                     /\ dbVisits' = mark_visit_failed(id, "analysis_failed", o).dbVisits
                     /\ analysed' = id
                     /\ workerBatch' = Tail(workerBatch)
                     /\ workerPc' = IF Tail(workerBatch) = <<>> THEN "poll" ELSE "analyze"
                  /\ UNCHANGED <<species_stats, best_capture>>
               \/ /\ dbCaptures[id] = <<>>
                  /\ \E o \in WriteOutcomes("unknown") :
                       Finish(id, mark_visit_completed(id, "unknown", "no_captures", o), o)
                  /\ UNCHANGED best_capture
               \/ \E i \in 1..Len(dbCaptures[id]) :
                     LET best == dbCaptures[id][i] IN
                     /\ best_capture' = best
                     /\ IF best.image_url = "http"
                        THEN /\ workerPc' = "identify"
                             /\ UNCHANGED <<workerBatch, analysed, storeVars, faults>>
                        ELSE /\ \E o \in WriteOutcomes("unknown") :
                                  Finish(id, mark_visit_completed(id, "unknown",
                                                 "image_not_accessible", o), o)
    /\ UNCHANGED <<engineVars, cfgVars, dbCaptures, tickVars>>
    /\ UNCHANGED <<queueVars, sideVars>>

\* One pass of _identify_species' loop: the classifier call and what follows it.
ClassifierCall ==
    /\ workerPc = "identify"
    /\ calls' = calls + 1
    /\ LET id == Head(workerBatch) IN
       \/ /\ \E species \in SpeciesGuess : \E o \in WriteOutcomes(species) :
               Finish(id, mark_visit_completed(id, species, "classifier", o), o)
          /\ UNCHANGED <<attempt, failedCalls>>
       \/ /\ failedCalls' = failedCalls + 1
          /\ IF attempt < OPENAI_MAX_RETRIES - 1
             THEN IF HasRetryDelay
                  THEN /\ attempt' = attempt + 1
                       /\ UNCHANGED <<workerPc, workerBatch, analysed, storeVars, faults>>
                  ELSE /\ \E o \in WriteOutcomes("unknown") :
                            Finish(id, mark_visit_failed(id, "analysis_failed", o), o)
                       /\ UNCHANGED attempt
             ELSE /\ \E o \in WriteOutcomes("unknown") :
                       Finish(id, mark_visit_completed(id, "unknown",
                                      "analysis_failed", o), o)
                  /\ UNCHANGED attempt
    /\ UNCHANGED <<engineVars, cfgVars, dbCaptures, tickVars, best_capture>>
    /\ UNCHANGED <<queueVars, sideVars>>

\* ---- _select_best_capture as a function of the rows it is handed.
\* Lists of at most MaxSelect captures are tried.
MaxSelect == 3

\* None for best_capture.
NoSelection == [id |-> 0, detections |-> <<>>]

\* Detections as _detect_birds stores them: a four-element box with
\* x1 <= x2 and y1 <= y2, and a confidence above the threshold (in tenths).
SampleDetections ==
    {[bbox |-> <<0, 0, 1, 1>>, confidence |-> 1],
     [bbox |-> <<0, 0, 2, 1>>, confidence |-> 1],
     [bbox |-> <<1, 1, 2, 2>>, confidence |-> 2],
     [bbox |-> <<3, 3, 3, 4>>, confidence |-> 3]}

\* A capture is taken on a detected tick, so it has at least one detection.
DetectionLists ==
    {<<d>> : d \in SampleDetections}
    \cup {<<d, e>> : d \in SampleDetections, e \in SampleDetections}

\* The rows of one Visit, in the order the select returns them.
CaptureRows ==
    {[i \in DOMAIN f |-> [id |-> i, detections |-> f[i]]] :
        f \in UNION {[1..m -> DetectionLists] : m \in 1..MaxSelect}}

\* The inner loop: total_area and max_confidence over the detections from k on.
RECURSIVE detection_totals(_, _, _, _)
detection_totals(detections, k, total_area, max_confidence) ==
    IF k > Len(detections)
    THEN [total_area |-> total_area, max_confidence |-> max_confidence]
    ELSE LET bbox == detections[k].bbox IN
         IF Len(bbox) = 4
         THEN detection_totals(detections, k + 1,
                  total_area + (bbox[3] - bbox[1]) * (bbox[4] - bbox[2]),
                  IF detections[k].confidence > max_confidence
                  THEN detections[k].confidence ELSE max_confidence)
         ELSE detection_totals(detections, k + 1, total_area, max_confidence)

capture_score(capture) ==
    LET t == detection_totals(capture.detections, 1, 0, 0)
    IN t.total_area * t.max_confidence

\* Variant: a later capture with the same score replaces the best one.
better_or_equal(score, best_score) == score >= best_score

\* if score > best_score
better(score, best_score) == score > best_score

\* The outer loop from capture k on.
RECURSIVE select_loop(_, _, _, _)
select_loop(captures, k, best, best_score) ==
    IF k > Len(captures) THEN best
    ELSE IF better(capture_score(captures[k]), best_score)
         THEN select_loop(captures, k + 1, captures[k], capture_score(captures[k]))
         ELSE select_loop(captures, k + 1, best, best_score)

select_best_capture(captures) ==
    LET best == select_loop(captures, 1, NoSelection, 0)
    IN IF best = NoSelection THEN captures[1] ELSE best

\* analyze_visit's call of _select_best_capture(captures.data).
SelectBest ==
    /\ selectPc = "call"
    /\ selected' = select_best_capture(captures_in)
    /\ selectPc' = "done"
    /\ UNCHANGED <<captures_in, backendVars, queueVars, cameraVars, scriptVars>>

\* ------------------------------------- scripts/pilot_bird_counter_fixed.py
\* Tasks the main loop may enqueue in one run.
MaxTasks == 4

\* The main loop's analysis_queue.put(...) on a new bird visit.
MainPut ==
    /\ mainLoc = "loop"
    /\ produced < MaxTasks
    /\ produced' = produced + 1
    /\ analysis_queue' = Append(analysis_queue, produced + 1)
    /\ unfinished_tasks' = unfinished_tasks + 1
    /\ UNCHANGED <<analysis_stop_event, mainLoc, workerLoc, processed, backendVars, sideVars>>

\* 'q' pressed, or an exception in the loop: control enters the finally block.
MainQuit ==
    /\ mainLoc = "loop"
    /\ mainLoc' = "finally"
    /\ UNCHANGED <<analysis_queue, unfinished_tasks, analysis_stop_event, workerLoc,
                   produced, processed, backendVars, sideVars>>

\* finally: analysis_stop_event.set()
MainSetStop ==
    /\ mainLoc = "finally"
    /\ analysis_stop_event' = TRUE
    /\ mainLoc' = "join"
    /\ UNCHANGED <<analysis_queue, unfinished_tasks, workerLoc, produced, processed,
                   backendVars, sideVars>>

\* analysis_queue.join() returns once unfinished_tasks is 0.
MainJoin ==
    /\ mainLoc = "join"
    /\ unfinished_tasks = 0
    /\ mainLoc' = "exit"
    /\ UNCHANGED <<analysis_queue, unfinished_tasks, analysis_stop_event, workerLoc,
                   produced, processed, backendVars, sideVars>>

\* analysis_worker: while not analysis_stop_event.is_set()
WorkerWhile ==
    /\ workerLoc = "while"
    /\ workerLoc' = IF analysis_stop_event THEN "exit" ELSE "get"
    /\ UNCHANGED <<analysis_queue, unfinished_tasks, analysis_stop_event, mainLoc,
                   produced, processed, backendVars, sideVars>>

\* analysis_queue.get(timeout=0.5): a task, or Empty and back to the loop test.
WorkerGet ==
    /\ workerLoc = "get"
    /\ IF analysis_queue = <<>>
       THEN /\ workerLoc' = "while"
            /\ UNCHANGED analysis_queue
       ELSE /\ workerLoc' = "body"
            /\ analysis_queue' = Tail(analysis_queue)
    /\ UNCHANGED <<unfinished_tasks, analysis_stop_event, mainLoc, produced, processed,
                   backendVars, sideVars>>

\* The body after get(): analysis, report and metrics, then task_done(); an
\* exception of the report or dashboard write ends the thread before task_done().
WorkerBody ==
    /\ workerLoc = "body"
    /\ \/ /\ unfinished_tasks' = unfinished_tasks - 1
          /\ processed' = processed + 1
          /\ workerLoc' = "while"
       \/ /\ workerLoc' = "dead"
          /\ UNCHANGED <<unfinished_tasks, processed>>
    /\ UNCHANGED <<analysis_queue, analysis_stop_event, mainLoc, produced, backendVars, sideVars>>

NextQueue ==
    MainPut \/ MainQuit \/ MainSetStop \/ MainJoin \/ WorkerWhile \/ WorkerGet
    \/ WorkerBody

\* ------------------------------------------------------------- specification
InitCommon ==
    /\ clock = 0
    /\ state = "idle"
    /\ current_visit = NoVisit
    /\ absence_start_time = NoTime
    /\ cooldown_start_time = NoTime
    /\ last_capture_time = NoTime
    /\ visits = <<>>
    /\ result = NoResult
    /\ lastTick = "init"
    /\ prevState = "idle"
    /\ lastLifecycle = "none"
    /\ dbVisits = <<>>
    /\ dbCaptures = <<>>
    /\ species_stats = [s \in SpeciesGuess \ {"unknown"} |-> 0]
    /\ workerPc = "poll"
    /\ workerBatch = <<>>
    /\ best_capture = NoCapture
    /\ attempt = 0
    /\ calls = 0
    /\ failedCalls = 0
    /\ analysed = NoVisit
    /\ scenario = 0
    /\ instructions = <<>>
    /\ faults = 0
    /\ analysis_queue = <<>>
    /\ unfinished_tasks = 0
    /\ analysis_stop_event = FALSE
    /\ mainLoc = "loop"
    /\ workerLoc = "while"
    /\ produced = 0
    /\ processed = 0

\* No _select_best_capture call under way.
InitSelectIdle ==
    /\ captures_in = <<>>
    /\ selected = NoSelection
    /\ selectPc = "idle"

\* BirdDetector.__init__: no camera connection tried yet.
InitCameraIdle ==
    /\ camPc = "idle"
    /\ backoff_seconds = 0
    /\ attempts = 0
    /\ slept = <<>>
    /\ lastAttempt = "none"
    /\ connectResult = "none"
    /\ camera_health = "unknown"
    /\ connectCalls = 0
    /\ running = FALSE
    /\ consecutive_failures = 0
    /\ streak = 0
    /\ since_tick = DETECTION_INTERVAL_MS
    /\ lastIter = "none"
    /\ iterSleep = 0
    /\ cap = "None"
    /\ cap_peak = 0
    /\ grab_cap = "None"
    /\ grab_peak = 0
    /\ grabber_alive = TRUE

\* frame_holder = {"frame": None, "lock": threading.Lock()}, no thread started.
InitFrameIdle ==
    /\ grabPc = "read"
    /\ consPc = "acquire"
    /\ frame_lock = "none"
    /\ holder_frame = 0
    /\ grabbed = 0
    /\ frame = 0
    /\ lastWritten = 0
    /\ framesRead = 0

\* The store's tables are empty and nothing has been sent.
InitTablesEmpty ==
    /\ tblVisits = <<>>
    /\ tblCaptures = <<>>
    /\ lastWrite = <<"none">>
    /\ repeated = FALSE
    /\ writes = 0

\* No image is locked and no analyzer process has called try_lock.
InitLocksFree ==
    /\ lock_files = {}
    /\ holding = [p \in 1..MaxProcs |-> 0]
    /\ lock_ret = [p \in 1..MaxProcs |-> "none"]
    /\ lastLockOp = <<"none">>
    /\ lockOps = 0

\* No metrics call has been made; file is what METRICS_FILE holds.
InitMetrics(file) ==
    /\ metrics_file = file
    /\ saved = DefaultMetrics
    /\ loaded = [raised |-> FALSE, value |-> DefaultMetrics]
    /\ lastMetricsOp = <<"none">>
    /\ metricsOps = 0

\* normalize_species has not been called.
InitNormalizeIdle ==
    /\ name_in = NoneName
    /\ normalized = Pending

\* The main loop's locals before the first pass.
InitCaptureLoop(m) ==
    /\ wall = StartWall
    /\ midnight = m
    /\ today = 0
    /\ unique_count = 0
    /\ script_last_capture_time = 0
    /\ last_bird_detection_time = 0
    /\ bird_present = FALSE
    /\ last_detection_timestamp = 0
    /\ puts = <<>>
    /\ mainPc = "running"
    /\ lastPass = "none"

\* The analyzer's sets before the first pass, over the images in the
\* capture root and the metrics file of the runs before.
InitAnalyzerRun(digest_of, birds, file, lo) ==
    /\ image_digest = digest_of
    /\ bird_digests = birds
    /\ in_root = DOMAIN digest_of
    /\ processed_images = {}
    /\ existing_ids = visit_ids(load_metrics(file, lo).value)
    /\ start_ids = visit_ids(load_metrics(file, "ok").value)
    /\ analysed_count = [d \in Digests |-> 0]
    /\ lastProcess = <<0, "none">>
    /\ processCalls = 0

InitAnalyzerIdle ==
    InitAnalyzerRun([i \in 1..MaxImages |-> "a"], {}, <<"missing">>, "ok")

InitPilotIdle ==
    /\ InitCaptureLoop(StartWall + MaxWallSpan + 1)
    /\ InitAnalyzerIdle

InitScriptsIdle ==
    /\ InitFrameIdle
    /\ InitTablesEmpty
    /\ InitLocksFree
    /\ InitMetrics(<<"missing">>)
    /\ InitNormalizeIdle
    /\ InitPilotIdle

\* A configuration with short periods, so that several Visits fit in a run.
InitBackend ==
    /\ InitCommon
    /\ scenarioB = -1
    /\ InitSelectIdle
    /\ InitCameraIdle
    /\ ABSENCE_GRACE_PERIOD_SEC = GraceCfg
    /\ VISIT_COOLDOWN_SEC = CooldownCfg
    /\ CAPTURE_INTERVAL_SEC = IntervalCfg
    /\ MAX_CAPTURES_PER_VISIT = MaxCapturesCfg
    /\ openai_client = TRUE
    /\ horizon = MaxTime

Init ==
    /\ InitBackend
    /\ InitScriptsIdle

\* Every MAX_CAPTURES_PER_VISIT the environment may set.
InitCfg ==
    /\ InitCommon
    /\ scenarioB = -1
    /\ InitSelectIdle
    /\ InitCameraIdle
    /\ InitScriptsIdle
    /\ ABSENCE_GRACE_PERIOD_SEC = GraceCfg
    /\ VISIT_COOLDOWN_SEC = CooldownCfg
    /\ CAPTURE_INTERVAL_SEC = IntervalCfg
    /\ MAX_CAPTURES_PER_VISIT \in 0..MaxCapturesCfg
    /\ openai_client = TRUE
    /\ horizon = MaxTime

\* Config's defaults: the configuration of the spec's scenarios.
InitDefault ==
    /\ InitCommon
    /\ scenarioB = 0
    /\ InitSelectIdle
    /\ InitCameraIdle
    /\ InitScriptsIdle
    /\ ABSENCE_GRACE_PERIOD_SEC = DefaultGrace
    /\ VISIT_COOLDOWN_SEC = DefaultCooldown
    /\ CAPTURE_INTERVAL_SEC = DefaultInterval
    /\ MAX_CAPTURES_PER_VISIT = DefaultMaxCaptures
    /\ openai_client = TRUE
    /\ horizon = MaxTimeDefault

\* No OPENAI_API_KEY: SpeciesAnalyzer.openai_client is None.
InitNoClassifier ==
    /\ InitCommon
    /\ scenarioB = -1
    /\ InitSelectIdle
    /\ InitCameraIdle
    /\ InitScriptsIdle
    /\ ABSENCE_GRACE_PERIOD_SEC = GraceCfg
    /\ VISIT_COOLDOWN_SEC = CooldownCfg
    /\ CAPTURE_INTERVAL_SEC = IntervalCfg
    /\ MAX_CAPTURES_PER_VISIT = MaxCapturesCfg
    /\ openai_client = FALSE
    /\ horizon = MaxTime

\* Every non-empty list of captures _select_best_capture may be handed.
InitSelect ==
    /\ InitCommon
    /\ scenarioB = -1
    /\ InitCameraIdle
    /\ InitScriptsIdle
    /\ ABSENCE_GRACE_PERIOD_SEC = GraceCfg
    /\ VISIT_COOLDOWN_SEC = CooldownCfg
    /\ CAPTURE_INTERVAL_SEC = IntervalCfg
    /\ MAX_CAPTURES_PER_VISIT = MaxCapturesCfg
    /\ openai_client = TRUE
    /\ horizon = MaxTime
    /\ captures_in \in CaptureRows
    /\ selected = NoSelection
    /\ selectPc = "call"

NextDetector == Tick \/ TickAdapterError

\* Without a client analyze_visit returns before _identify_species.
NextNoClassifier == Tick \/ TickAdapterError \/ WorkerPoll \/ AnalyzeVisit

Next == Tick \/ TickAdapterError \/ WorkerPoll \/ AnalyzeVisit \/ ClassifierCall

Spec == Init /\ [][Next]_vars

SpecCfg == InitCfg /\ [][NextDetector]_vars

SpecDefault == InitDefault /\ [][NextDetector]_vars

SpecQueue == Init /\ [][NextQueue]_vars

SpecNoClassifier == InitNoClassifier /\ [][NextNoClassifier]_vars

SpecSelect == InitSelect /\ [][SelectBest]_vars

SpecCamera == Init /\ [][NextCamera]_vars

SpecLoop == Init /\ [][NextLoop]_vars

\* The detector's and frame_grabber's captures from start to cleanup.
SpecHandles == Init /\ [][NextHandles]_vars

SpecFrame == Init /\ [][NextFrame]_vars

SpecStore == Init /\ [][NextStore]_vars

SpecLock == Init /\ [][NextLock]_vars

\* The scripts start with no metrics file or with one that is not JSON.
InitMetricsFile ==
    /\ InitBackend
    /\ InitFrameIdle
    /\ InitTablesEmpty
    /\ InitLocksFree
    /\ \E file \in {<<"missing">>, <<"invalid">>} : InitMetrics(file)
    /\ InitNormalizeIdle
    /\ InitPilotIdle

SpecMetrics == InitMetricsFile /\ [][NextMetrics]_vars

\* Every name normalize_species may be called with.
InitNormalize ==
    /\ InitBackend
    /\ InitFrameIdle
    /\ InitTablesEmpty
    /\ InitLocksFree
    /\ InitMetrics(<<"missing">>)
    /\ name_in \in Names
    /\ normalized = Pending
    /\ InitPilotIdle

SpecNormalize == InitNormalize /\ [][Normalize]_vars

\* update_metrics called again and again, the metrics file missing at first.
SpecUpdate == Init /\ [][UpdateMetrics]_vars

\* The capture script's main loop, in a run that sees the date change and in
\* one that does not.
InitCapture ==
    /\ InitBackend
    /\ InitFrameIdle
    /\ InitTablesEmpty
    /\ InitLocksFree
    /\ InitMetrics(<<"missing">>)
    /\ InitNormalizeIdle
    /\ \E m \in {StartWall + MidnightAfter, StartWall + MaxWallSpan + 1} :
          InitCaptureLoop(m)
    /\ InitAnalyzerIdle

SpecCapture == InitCapture /\ [][MainLoopPass]_vars

\* The metrics file a run before has left: none, or one with the entry of
\* an image of content "a".
MetricsOfRunBefore ==
    {<<"missing">>,
     save_metrics(<<"missing">>, update_metrics(DefaultMetrics, "a", "robin"), "ok")}

\* The analyzer over any images, with any metrics file of a run before.
InitAnalyzer ==
    /\ InitBackend
    /\ InitFrameIdle
    /\ InitTablesEmpty
    /\ InitLocksFree
    /\ InitNormalizeIdle
    /\ InitCaptureLoop(StartWall + MaxWallSpan + 1)
    /\ \E file \in MetricsOfRunBefore :
          /\ InitMetrics(file)
          /\ \E digest_of \in [1..MaxImages -> Digests], birds \in SUBSET Digests,
                lo \in LoadOutcomes :
                InitAnalyzerRun(digest_of, birds, file, lo)

SpecAnalyzer == InitAnalyzer /\ [][ProcessOne]_vars

\* ------------------------------------------------------------------ properties
VisitIds == 1..Len(visits)

\* A loop iteration is the only step that advances the clock.
IsTick == clock' # clock

\* A Visit's lifecycle status: the engine sets 'active' and 'analyzing' on the
\* object, the worker sets 'completed' and 'failed' on the store's row.
VisitStatus(i) ==
    IF dbVisits[i].status \in {"completed", "failed"} THEN dbVisits[i].status
    ELSE visits[i].status

\* C1: the engine never holds more than one open Visit: a start_visit
\* instruction is issued only while current_visit is empty, and at most one
\* Visit object is 'active', the one the engine holds.
C1_StartOnlyWhenEmpty ==
    [][(IsTick /\ result'.action = "start_visit") => current_visit = NoVisit]_vars

C1_OneActiveVisit ==
    /\ Cardinality({i \in VisitIds : visits[i].status = "active"}) <= 1
    /\ current_visit # NoVisit => visits[current_visit].status = "active"

C1_OneOpenVisit == []C1_OneActiveVisit /\ C1_StartOnlyWhenEmpty

\* A second Visit has just been started.
C1_Witness ==
    /\ Len(visits) = 2
    /\ result.action = "start_visit"
    /\ current_visit = 2

\* C2 as stated: of all the Visits created, at most one is 'active' or 'analyzing'.
C2_AtMostOneOpen ==
    Cardinality({i \in VisitIds : VisitStatus(i) \in {"active", "analyzing"}}) <= 1

\* C2 amended: of all the Visits created, at most one is 'active', and it is
\* the engine's current Visit; every other open Visit has been handed over
\* ('analyzing', end_time set) and stays open until the worker has handled it.
C2_AtMostOneActive ==
    /\ Cardinality({i \in VisitIds : VisitStatus(i) = "active"}) <= 1
    /\ \A i \in VisitIds :
          /\ VisitStatus(i) = "active" => i = current_visit
          /\ VisitStatus(i) = "analyzing" =>
                i # current_visit /\ visits[i].end_time # NoTime

\* The first Visit is still 'analyzing' in the store while the second is 'active'.
C2_Witness ==
    /\ Len(visits) = 2
    /\ VisitStatus(1) = "analyzing"
    /\ dbVisits[1].status = "analyzing"
    /\ VisitStatus(2) = "active"

\* C3: no two start_visit instructions in a row: start_visit and
\* complete_visit alternate, beginning with start_visit, and a detected tick
\* during the cooldown emits no start_visit.
C3_NoTwoStartsInARow ==
    [][IsTick =>
        /\ result'.action = "start_visit" => lastLifecycle # "start_visit"
        /\ result'.action = "complete_visit" => lastLifecycle = "start_visit"
        /\ (/\ lastTick' = "detected"
            /\ cooldown_start_time # NoTime
            /\ clock - cooldown_start_time < VISIT_COOLDOWN_SEC)
              => result'.action # "start_visit"]_vars

\* The cooldown of the first Visit has run out and the second one has started.
C3_Witness ==
    /\ Len(visits) = 2
    /\ lastLifecycle = "start_visit"
    /\ result.action = "start_visit"
    /\ cooldown_start_time # NoTime
    /\ visits[2].start_time - cooldown_start_time >= VISIT_COOLDOWN_SEC

\* C4: a detected tick in BIRD_ABSENT before the grace period has elapsed
\* returns to BIRD_PRESENT with the same Visit and the same captures, clears
\* absence_start_time and emits no instruction.
C4_ResumeSameVisit ==
    [][(/\ IsTick
        /\ state = "bird_absent"
        /\ lastTick' = "detected"
        /\ clock - absence_start_time < ABSENCE_GRACE_PERIOD_SEC)
         => /\ state' = "bird_present"
            /\ current_visit' = current_visit
            /\ visits' = visits
            /\ dbCaptures' = dbCaptures
            /\ absence_start_time' = NoTime
            /\ result' = NoResult]_vars

\* The bird came back within the grace period.
C4_Witness ==
    /\ prevState = "bird_absent"
    /\ lastTick = "detected"
    /\ state = "bird_present"
    /\ Len(visits[current_visit].captures) > 0

\* C5: no Visit has more captures than MAX_CAPTURES_PER_VISIT, whatever the
\* configured value, the capture of start_visit included.
C5_CaptureCap ==
    \A i \in VisitIds : Len(visits[i].captures) <= MAX_CAPTURES_PER_VISIT

\* C6: every Visit reaches 'completed' or 'failed' in the store, also when a
\* single store write fails. The worker only ever picks up rows in status
\* 'analyzing', so a Visit the engine has handed over must be in the store as
\* 'analyzing' or already terminal.
C6_HandedOverVisitIsInStore ==
    faults <= 1 =>
        \A i \in VisitIds :
            visits[i].status = "analyzing" =>
                dbVisits[i].status \in {"analyzing", "completed", "failed"}

\* C7: an analyze_visit whose classifier calls all failed (and no other
\* failure in the run) made exactly OPENAI_MAX_RETRIES calls and left the
\* Visit 'failed' with an error summary.
C7_ThreeAttemptsThenFailed ==
    (/\ workerPc # "identify"
     /\ analysed # NoVisit
     /\ calls > 0
     /\ failedCalls = calls
     /\ faults = 0)
      => /\ calls = OPENAI_MAX_RETRIES
         /\ dbVisits[analysed].status = "failed"
         /\ dbVisits[analysed].summary = "analysis_failed"

\* C8: a tick on which the detector adapter raises is processed by the engine
\* as 'not detected'.
C8_AdapterErrorIsNotDetected ==
    [][(IsTick /\ lastTick' = "adapter_error")
        => LET r == process_detection(Self, FALSE, clock) IN
           /\ state' = r.self.state
           /\ absence_start_time' = r.self.absence_start_time
           /\ current_visit' = r.self.current_visit]_vars

\* C9: after the shutdown signal the shutdown terminates (join() returns)
\* with every task that was put processed.
C9_ShutdownDrains ==
    analysis_stop_event =>
        /\ mainLoc = "exit" \/ ENABLED NextQueue
        /\ mainLoc = "exit" => processed = produced

\* C10: scenario A under Config's defaults: start_visit at t = 0, capture at
\* t = 3, 6, 9, complete_visit at t = 16, and nothing else; four captures.
ScenarioA ==
    << <<0, "start_visit">>, <<3, "capture">>, <<6, "capture">>, <<9, "capture">>,
       <<16, "complete_visit">> >>

RECURSIVE Before(_, _)
Before(log, t) ==
    IF log = <<>> \/ Head(log)[1] >= t THEN <<>>
    ELSE <<Head(log)>> \o Before(Tail(log), t)

C10_ScenarioA ==
    scenario >= 0 =>
        /\ instructions = Before(ScenarioA, scenario)
        /\ (scenario > 16 /\ faults = 0) =>
              /\ Len(visits) = 1
              /\ Len(visits[1].captures) = 4
              /\ visits[1].end_time = 16

\* The scenario has run through the completing tick.
C10_Witness ==
    /\ scenario > 16
    /\ faults = 0
    /\ state = "visit_complete"
    /\ Len(instructions) = 5

\* C11: scenario B under Config's defaults (grace period 5): detected at
\* t = 0, not detected at t = 1, 2, 3, detected again at t = 4. The Visit
\* started at t = 0 stays the current one throughout, no complete_visit is
\* emitted, the tick at t = 4 ends in BIRD_PRESENT with absence_start_time
\* cleared, and any later completion follows an absence that began after
\* t = 4 and lasted the full grace period.
C11_During ==
    scenarioB \in 1..4 =>
        /\ Len(visits) = 1
        /\ current_visit = 1
        /\ visits[1].start_time = 0
        /\ visits[1].status = "active"
        /\ lastLifecycle = "start_visit"
        /\ result.action = (IF scenarioB = 1 THEN "start_visit" ELSE "none")
        /\ state = (IF scenarioB = 1 THEN "bird_present" ELSE "bird_absent")
        /\ absence_start_time = (IF scenarioB = 1 THEN NoTime ELSE 1)

C11_Return ==
    [][(scenarioB = 4 /\ scenarioB' = 5)
        => /\ state' = "bird_present"
           /\ current_visit' = 1
           /\ visits'[1].start_time = 0
           /\ visits'[1].status = "active"
           /\ Len(visits') = 1
           /\ absence_start_time' = NoTime
           /\ result' = NoResult]_vars

C11_LaterAbsence ==
    [][(IsTick /\ scenarioB = 5 /\ result'.action = "complete_visit")
        => /\ absence_start_time >= 5
           /\ clock - absence_start_time >= ABSENCE_GRACE_PERIOD_SEC]_vars

C11_ScenarioB == []C11_During /\ C11_Return /\ C11_LaterAbsence

\* The bird is back at t = 4 and the Visit of t = 0 is still the current one.
C11_Witness ==
    /\ scenarioB = 5
    /\ clock = 5
    /\ prevState = "bird_absent"
    /\ lastTick = "detected"
    /\ state = "bird_present"
    /\ current_visit = 1

\* C12: complete_visit is emitted exactly on the not-detected ticks in
\* BIRD_ABSENT whose time since absence_start_time is at least
\* ABSENCE_GRACE_PERIOD_SEC (so on the first of them). absence_start_time is
\* the time of the not-detected tick that left BIRD_PRESENT and no detected
\* tick was processed in BIRD_ABSENT since, so the last detected tick is at
\* least the grace period back.
C12_CompleteIffGraceElapsed ==
    [][IsTick =>
        (result'.action = "complete_visit"
           <=> /\ state = "bird_absent"
               /\ lastTick' = "clear"
               /\ absence_start_time # NoTime
               /\ clock - absence_start_time >= ABSENCE_GRACE_PERIOD_SEC)]_vars

C12_AbsenceStart ==
    [][IsTick =>
        /\ (state = "bird_present" /\ lastTick' = "clear")
              => state' = "bird_absent" /\ absence_start_time' = clock
        /\ (state = "bird_absent" /\ state' = "bird_absent")
              => lastTick' # "detected" /\ absence_start_time' = absence_start_time
        /\ (state # "bird_absent" /\ state' = "bird_absent")
              => state = "bird_present" /\ lastTick' = "clear"]_vars

C12_AbsenceTimed ==
    state = "bird_absent" => absence_start_time # NoTime /\ absence_start_time < clock

C12_GracePeriod == []C12_AbsenceTimed /\ C12_AbsenceStart /\ C12_CompleteIffGraceElapsed

\* A Visit has just been completed out of BIRD_ABSENT.
C12_Witness ==
    /\ prevState = "bird_absent"
    /\ lastTick = "clear"
    /\ result.action = "complete_visit"
    /\ state = "visit_complete"
    /\ visits[result.visit].end_time - visits[result.visit].start_time
          >= ABSENCE_GRACE_PERIOD_SEC

\* C13: between a complete_visit instruction and the next start_visit lie at
\* least VISIT_COOLDOWN_SEC seconds: every Visit starts no earlier than the
\* cooldown after the end of the Visit before it. cooldown_start_time is the
\* time of the last complete_visit and nothing else moves it, so a detected
\* tick during the cooldown neither starts a Visit nor restarts or extends
\* the cooldown.
C13_Gap ==
    \A i \in VisitIds :
        i > 1 => /\ visits[i - 1].end_time # NoTime
                 /\ visits[i].start_time - visits[i - 1].end_time
                       >= VISIT_COOLDOWN_SEC

C13_CooldownStart ==
    /\ visits = <<>> => cooldown_start_time = NoTime
    /\ (visits # <<>> /\ current_visit = NoVisit)
          => cooldown_start_time = visits[Len(visits)].end_time

C13_CooldownTicks ==
    [][(/\ IsTick
        /\ cooldown_start_time # NoTime
        /\ current_visit = NoVisit
        /\ clock - cooldown_start_time < VISIT_COOLDOWN_SEC)
         => /\ result' = NoResult
            /\ visits' = visits
            /\ state' = state
            /\ cooldown_start_time' = cooldown_start_time]_vars

C13_StartAtCooldown ==
    [][(/\ IsTick
        /\ lastTick' = "detected"
        /\ current_visit = NoVisit
        /\ cooldown_start_time # NoTime
        /\ clock - cooldown_start_time >= VISIT_COOLDOWN_SEC)
         => result'.action = "start_visit"]_vars

C13_Cooldown ==
    [](C13_Gap /\ C13_CooldownStart) /\ C13_CooldownTicks /\ C13_StartAtCooldown

\* The second Visit started exactly when the cooldown of the first ran out.
C13_Witness ==
    /\ Len(visits) = 2
    /\ visits[2].start_time - visits[1].end_time = VISIT_COOLDOWN_SEC
    /\ clock > visits[2].start_time

\* C14: in VISIT_COMPLETE with the cooldown elapsed, a detected tick emits
\* start_visit with capture in that same tick and ends in BIRD_PRESENT with a
\* fresh Visit, not the completed one; a not-detected tick ends in IDLE with
\* no instruction.
C14_LeaveComplete ==
    [][(/\ IsTick
        /\ state = "visit_complete"
        /\ clock - cooldown_start_time >= VISIT_COOLDOWN_SEC
        /\ lastTick' \in {"detected", "clear"})
         => IF lastTick' = "detected"
            THEN /\ result'.action = "start_visit"
                 /\ result'.capture
                 /\ state' = "bird_present"
                 /\ Len(visits') = Len(visits) + 1
                 /\ result'.visit = Len(visits')
                 /\ current_visit' = result'.visit
                 /\ \A i \in VisitIds :
                        /\ i # current_visit'
                        /\ visits'[i].status = visits[i].status
                        /\ visits'[i].end_time = visits[i].end_time
                 /\ visits'[current_visit'].status = "active"
                 /\ visits'[current_visit'].start_time = clock
                 /\ visits'[current_visit'].end_time = NoTime
                 /\ Len(visits'[current_visit'].captures) <= 1
            ELSE /\ result' = NoResult
                 /\ state' = "idle"
                 /\ current_visit' = NoVisit
                 /\ visits' = visits]_vars

\* The second Visit was started by the tick that found the engine in
\* VISIT_COMPLETE.
C14_Witness ==
    /\ prevState = "visit_complete"
    /\ lastTick = "detected"
    /\ state = "bird_present"
    /\ result.action = "start_visit"
    /\ result.visit = 2
    /\ visits[1].status = "analyzing"

\* C15: once complete_visit has been emitted for a Visit, the engine's
\* current_visit is empty, no later instruction refers to that Visit, and its
\* capture list (in memory and in the store) no longer changes.
C15_ClosedNotCurrent ==
    \A i \in VisitIds : visits[i].end_time # NoTime => current_visit # i

C15_CompleteReleases ==
    [][(IsTick /\ result'.action = "complete_visit")
        => /\ result'.visit = current_visit
           /\ visits'[result'.visit].end_time = clock
           /\ current_visit' = NoVisit]_vars

C15_ClosedUntouched ==
    [][\A i \in VisitIds :
          visits[i].end_time # NoTime
            => /\ visits'[i] = visits[i]
               /\ dbCaptures'[i] = dbCaptures[i]
               /\ IsTick => result'.visit # i]_vars

C15_OwnershipTransferred ==
    []C15_ClosedNotCurrent /\ C15_CompleteReleases /\ C15_ClosedUntouched

\* Detection went on after the first Visit was completed: a capture was
\* taken for the second Visit.
C15_Witness ==
    /\ Len(visits) = 2
    /\ visits[1].end_time # NoTime
    /\ result.action = "capture"
    /\ result.visit = 2
    /\ Len(visits[2].captures) = 2

\* C16: in BIRD_PRESENT on a detected tick a capture instruction is emitted
\* if and only if the time since the last capture is at least
\* CAPTURE_INTERVAL_SEC and the Visit has fewer than MAX_CAPTURES_PER_VISIT
\* captures; otherwise the instruction is none; the state stays BIRD_PRESENT.
\* last_capture_time is the time of the last capture-bearing instruction, so
\* two consecutive ones of a Visit are at least the interval apart.
C16_CaptureIff ==
    [][(IsTick /\ state = "bird_present" /\ lastTick' = "detected")
        => /\ result'.action = "capture"
                <=> /\ clock - last_capture_time >= CAPTURE_INTERVAL_SEC
                    /\ Len(visits[current_visit].captures) < MAX_CAPTURES_PER_VISIT
           /\ result'.action = "capture"
                => result'.capture /\ result'.visit = current_visit
           /\ result'.action # "capture" => result' = NoResult
           /\ state' = "bird_present"
           /\ current_visit' = current_visit]_vars

C16_LastCaptureTime ==
    [][IsTick =>
        /\ last_capture_time' = (IF result'.capture THEN clock ELSE last_capture_time)
        /\ result'.action = "capture"
             => /\ state = "bird_present"
                /\ clock - last_capture_time >= CAPTURE_INTERVAL_SEC]_vars

C16_PresentHasCaptureTime ==
    state = "bird_present" => last_capture_time # NoTime /\ current_visit # NoVisit

C16_CaptureRule == []C16_PresentHasCaptureTime /\ C16_CaptureIff /\ C16_LastCaptureTime

\* The bird is still detected, the interval has passed, and the Visit is at
\* its maximum of captures: nothing was emitted.
C16_Witness ==
    /\ prevState = "bird_present"
    /\ lastTick = "detected"
    /\ state = "bird_present"
    /\ result = NoResult
    /\ MAX_CAPTURES_PER_VISIT > 0
    /\ Len(visits[current_visit].captures) = MAX_CAPTURES_PER_VISIT
    /\ clock - last_capture_time >= CAPTURE_INTERVAL_SEC + MaxStep

\* C17: with no classifier configured, analyze_visit on a Visit in status
\* 'analyzing' makes no classifier call and, the store accepting the update,
\* leaves the Visit 'completed' with label 'unknown'.
C17_NoCalls ==
    ~openai_client => calls = 0 /\ workerPc # "identify" /\ failedCalls = 0

C17_MarkedUnknown ==
    [][(/\ ~openai_client
        /\ workerPc = "analyze"
        /\ workerBatch' # workerBatch
        /\ dbVisits[Head(workerBatch)].status = "analyzing")
         => /\ analysed' = Head(workerBatch)
            /\ calls' = 0
            /\ workerPc' # "identify"
            /\ faults' = faults
                 => /\ dbVisits'[Head(workerBatch)].status = "completed"
                    /\ dbVisits'[Head(workerBatch)].species = "unknown"
                    /\ species_stats' = species_stats]_vars

C17_Selected ==
    workerPc = "analyze" =>
        /\ workerBatch # <<>>
        /\ \A k \in 1..Len(workerBatch) : dbVisits[workerBatch[k]].status = "analyzing"

C17_NoClassifier == [](C17_NoCalls /\ C17_Selected) /\ C17_MarkedUnknown

\* A Visit with captures was analyzed without a classifier.
C17_Witness ==
    /\ ~openai_client
    /\ analysed # NoVisit
    /\ dbCaptures[analysed] # <<>>
    /\ dbVisits[analysed].status = "completed"
    /\ dbVisits[analysed].species = "unknown"
    /\ dbVisits[analysed].summary = "not_configured"
    /\ calls = 0

\* C18: for every non-empty list of captures, _select_best_capture returns a
\* capture of the list whose (sum of bounding-box areas) x (maximum detection
\* confidence) is maximal over the list, and the earliest such capture.
BoxArea(d) == (d.bbox[3] - d.bbox[1]) * (d.bbox[4] - d.bbox[2])

RECURSIVE SumAreas(_)
SumAreas(ds) == IF ds = <<>> THEN 0 ELSE BoxArea(Head(ds)) + SumAreas(Tail(ds))

MaxConfidence(ds) ==
    IF ds = <<>> THEN 0
    ELSE CHOOSE c \in {ds[k].confidence : k \in 1..Len(ds)} :
            \A k \in 1..Len(ds) : ds[k].confidence <= c

Score(c) == SumAreas(c.detections) * MaxConfidence(c.detections)

C18_BestIsEarliestMaximum ==
    selectPc = "done" =>
        /\ selected.id \in 1..Len(captures_in)
        /\ selected = captures_in[selected.id]
        /\ \A j \in 1..Len(captures_in) :
              /\ Score(captures_in[j]) <= Score(selected)
              /\ j < selected.id => Score(captures_in[j]) < Score(selected)

\* The second and third capture tie for the best score, above the first,
\* and the second one was returned.
C18_Witness ==
    /\ selectPc = "done"
    /\ Len(captures_in) = 3
    /\ Score(captures_in[1]) < Score(captures_in[2])
    /\ Score(captures_in[2]) = Score(captures_in[3])
    /\ captures_in[2].detections # captures_in[3].detections
    /\ selected.id = 2

\* C19: one analyze_visit makes at most OPENAI_MAX_RETRIES classifier calls
\* and none after a successful one, and a failed attempt that is not the last
\* is followed, after the backoff wait, by the next attempt.
C19_AtMostMaxCalls == calls <= OPENAI_MAX_RETRIES

C19_SuccessEndsCalls ==
    [][(workerPc = "identify" /\ calls' = calls + 1 /\ failedCalls' = failedCalls)
        => workerPc' # "identify"]_vars

C19_FailureIsRetried ==
    [][(/\ workerPc = "identify"
        /\ failedCalls' = failedCalls + 1
        /\ attempt < OPENAI_MAX_RETRIES - 1)
         => /\ workerPc' = "identify"
            /\ attempt' = attempt + 1
            /\ dbVisits' = dbVisits]_vars

C19_RetriesWithBackoff ==
    []C19_AtMostMaxCalls /\ C19_SuccessEndsCalls /\ C19_FailureIsRetried

\* C20: in _connect_camera the wait after the n-th failed attempt is
\* min(2 x 2^(n-1), 60) seconds; a call makes at most 10 attempts, returns
\* success on the first attempt that reads a frame, and after 10 failed
\* attempts returns failure with the camera reported 'disconnected'; every
\* call starts again from the base delay.
RECURSIVE Pow2(_)
Pow2(n) == IF n = 0 THEN 1 ELSE 2 * Pow2(n - 1)

ExpectedWait(n) == IF 2 * Pow2(n - 1) < 60 THEN 2 * Pow2(n - 1) ELSE 60

C20_Waits ==
    /\ Len(slept) = attempts
    /\ attempts <= 10
    /\ \A n \in 1..Len(slept) : slept[n] = ExpectedWait(n)
    /\ camPc = "connecting" => attempts < 10 /\ connectResult = "pending"
    /\ connectResult = "true"
         => camPc = "idle" /\ lastAttempt = "frame" /\ attempts < 10
            /\ camera_health = "connected"
    /\ connectResult = "false"
         => camPc = "idle" /\ lastAttempt # "frame" /\ attempts = 10
            /\ camera_health = "disconnected"

C20_Attempts ==
    [][/\ (camPc = "idle" /\ camPc' = "connecting")
            => slept' = <<>> /\ attempts' = 0 /\ backoff_seconds' = 2
       /\ (camPc = "connecting" /\ lastAttempt' = "frame" /\ connectResult' # connectResult)
            => connectResult' = "true" /\ slept' = slept
       /\ (camPc = "connecting" /\ slept' # slept)
            => /\ lastAttempt' # "frame"
               /\ slept' = Append(slept, ExpectedWait(attempts + 1))
               /\ connectResult' = (IF attempts = 9 THEN "false" ELSE "pending")]_vars

C20_ConnectBackoff == []C20_Waits /\ C20_Attempts

\* A second call has used up its ten attempts; its waits began at the base
\* delay again and reached the ceiling.
C20_Witness ==
    /\ connectCalls = 2
    /\ connectResult = "false"
    /\ Len(slept) = 10
    /\ slept[1] = 2
    /\ slept[5] = 32
    /\ slept[6] = 60
    /\ slept[10] = 60
    /\ camera_health = "disconnected"

\* C21: in the detection loop a reconnect is started exactly when a failed
\* frame read brings the count of consecutive failed reads to the threshold
\* of 10 or finds it there (a failed reconnect leaves the count standing); a
\* successful read and a successful reconnect reset the count to 0, so fewer
\* than 10 consecutive failures never start a reconnect.
C21_CountIsStreak ==
    /\ consecutive_failures = streak
    /\ (running /\ camPc = "idle" /\ connectResult = "true") => streak < 10

C21_ReconnectAtThreshold ==
    [][/\ (running /\ camPc = "idle" /\ camPc' = "connecting")
            => lastIter' = "read_failed" /\ streak' = streak + 1 /\ streak' >= 10
       /\ (running /\ camPc = "idle" /\ streak' = streak + 1 /\ streak' >= 10)
            => camPc' = "connecting"
       /\ (running /\ camPc = "idle" /\ lastIter' = "tick" /\ since_tick' # since_tick)
            => consecutive_failures' = 0
       /\ (camPc = "connecting" /\ connectResult' = "true")
            => consecutive_failures' = 0]_vars

C21_Reconnect == []C21_CountIsStreak /\ C21_ReconnectAtThreshold

\* After a successful reconnect the reads failed ten times in a row again
\* and the second reconnect has begun.
C21_Witness ==
    /\ running
    /\ connectCalls = 3
    /\ camPc = "connecting"
    /\ lastIter = "read_failed"
    /\ consecutive_failures = 10
    /\ attempts = 0

\* C27: consecutive ticks of the detection loop are at least
\* DETECTION_INTERVAL_MS apart, and every pass of the loop that does not end
\* in a tick sleeps, also a pass whose frame read failed.
C27_TicksApart ==
    [][(running /\ camPc = "idle" /\ lastIter' = "tick" /\ since_tick' # since_tick)
          => since_tick >= DETECTION_INTERVAL_MS]_vars

C27_PassSleeps ==
    (lastIter = "wait" \/ (lastIter = "read_failed" /\ ~reconnect_due(consecutive_failures)))
        => iterSleep > 0

C27_RateLimited == []C27_PassSleeps /\ C27_TicksApart

\* C22: the frame holder is written by the grabber and read by the main loop
\* only while the acting thread holds frame_holder["lock"], the two are never
\* inside their critical sections together, and every read by the main loop
\* returns the frame of the latest write.
C22_GrabberInside == grabPc \in {"write", "release"}

C22_MainInside == consPc \in {"read", "release"}

C22_Exclusive ==
    /\ ~(C22_GrabberInside /\ C22_MainInside)
    /\ C22_GrabberInside => frame_lock = "grabber"
    /\ C22_MainInside => frame_lock = "main"

C22_UnderLock ==
    [][/\ holder_frame' # holder_frame => frame_lock = "grabber" /\ frame_lock' = "grabber"
       /\ framesRead' # framesRead
            => frame_lock = "main" /\ frame_lock' = "main" /\ frame' = lastWritten]_vars

C22_FrameHolder == []C22_Exclusive /\ C22_UnderLock

\* The main loop reads the second frame while the grabber, holding the
\* third, waits for the lock.
C22_Witness ==
    /\ consPc = "release"
    /\ frame = 2
    /\ grabPc = "acquire"
    /\ grabbed = 3
    /\ framesRead = 2

\* C23: a failed insert of the visit row on a start_visit tick does not stop
\* the engine: the tick ends in BIRD_PRESENT with the new in-memory Visit as
\* current visit and its first photo taken, the loop can go on, and later
\* ticks store the photos they are told to take for that Visit and complete it.
C23_RowMissing(i) == dbVisits[i].status = "missing"

C23_StartSurvives ==
    [][(IsTick /\ result'.action = "start_visit"
               /\ dbVisits'[result'.visit].status = "missing")
         => /\ state' = "bird_present"
            /\ current_visit' = result'.visit
            /\ visits'[result'.visit].status = "active"
            /\ result'.capture
            /\ faults' = faults + 1
                 => /\ Len(visits'[result'.visit].captures) = 1
                    /\ Len(dbCaptures'[result'.visit]) = 1]_vars

C23_LaterTicks ==
    [][(IsTick /\ current_visit # NoVisit /\ C23_RowMissing(current_visit)
               /\ result'.action # "none")
         => /\ result'.visit = current_visit
            /\ (result'.capture /\ faults' = faults)
                 => Len(visits'[current_visit].captures)
                        = Len(visits[current_visit].captures) + 1
            /\ result'.action = "complete_visit"
                 => /\ visits'[current_visit].status = "analyzing"
                    /\ visits'[current_visit].end_time = clock
                    /\ current_visit' = NoVisit]_vars

C23_LoopGoesOn ==
    (current_visit # NoVisit /\ C23_RowMissing(current_visit) /\ clock <= horizon)
        => ENABLED Tick

C23_CreateFailureSurvived == []C23_LoopGoesOn /\ C23_StartSurvives /\ C23_LaterTicks

\* A Visit whose row was never created has been photographed twice and completed.
C23_Witness ==
    \E i \in VisitIds :
        /\ C23_RowMissing(i)
        /\ visits[i].status = "analyzing"
        /\ visits[i].end_time # NoTime
        /\ Len(visits[i].captures) = 2

\* C25: every Visit whose end_time is set has end_time >= start_time, the
\* clock never running backwards.
C25_EndNotBeforeStart ==
    \A i \in VisitIds :
        visits[i].end_time # NoTime => visits[i].end_time >= visits[i].start_time

\* Two Visits have been closed, the second one started after the first ended.
C25_Witness ==
    /\ Len(visits) >= 2
    /\ visits[1].end_time > visits[1].start_time
    /\ visits[2].start_time > visits[1].end_time
    /\ visits[2].end_time > visits[2].start_time

\* C26: the engine's state (state, current_visit, absence_start_time,
\* cooldown_start_time, last_capture_time) and its Visit objects are changed
\* by iterations of the detection loop only: every step of the analyzer
\* worker leaves them as they are, and the worker takes up and writes to
\* nothing but Visits the engine has completed and handed over.
C26_WorkerStep == ~IsTick /\ workerVars' # workerVars

C26_WorkerLeavesEngine ==
    [][/\ C26_WorkerStep => UNCHANGED <<engineVars, visits, result, dbCaptures>>
       /\ ~UNCHANGED <<engineVars, visits>> => IsTick /\ UNCHANGED workerVars]_vars

C26_HandedOver(i) ==
    /\ i \in VisitIds
    /\ i # current_visit
    /\ visits[i].status = "analyzing"
    /\ visits[i].end_time # NoTime

C26_OnlyHandedOver ==
    /\ \A k \in 1..Len(workerBatch) : C26_HandedOver(workerBatch[k])
    /\ analysed # NoVisit => C26_HandedOver(analysed)

C26_WorkerWrites ==
    [][C26_WorkerStep
         => \A i \in VisitIds : dbVisits'[i] # dbVisits[i] => C26_HandedOver(i)]_vars

C26_OneDirection == []C26_OnlyHandedOver /\ C26_WorkerLeavesEngine /\ C26_WorkerWrites

\* The worker has closed the first Visit in the store while the engine is
\* in the middle of the second one.
C26_Witness ==
    /\ analysed = 1
    /\ dbVisits[1].status = "completed"
    /\ current_visit = 2
    /\ state = "bird_absent"
    /\ workerPc = "poll"

\* C24: a write to the store that repeats the payload of a write that
\* reached the store changes nothing, so each identifier keeps exactly one
\* record; and a Visit written, read back and written again leaves the table
\* as the single write of its final values did.
C24_Records(tbl, id) == {k \in 1..Len(tbl) : tbl[k].id = id}

C24_Read(tbl, id) == tbl[CHOOSE k \in C24_Records(tbl, id) : TRUE]

C24_OneRecordPerId ==
    /\ \A i \in 1..MaxStoreIds : Cardinality(C24_Records(tblVisits, i)) <= 1
    /\ \A i \in 1..MaxStoreIds : Cardinality(C24_Records(tblCaptures, i)) <= 1
    /\ (Len(lastWrite) = 3 /\ lastWrite[3] /\ lastWrite[1] # "finalize")
         => Cardinality(C24_Records(IF lastWrite[1] = "create" THEN tblVisits
                                    ELSE tblCaptures, lastWrite[2].id)) = 1

C24_RoundTrip ==
    \A v \in VisitPayloads :
        id_taken(tblVisits, v.id)
          => LET once == finalize_write(tblVisits, v, TRUE)
                 back == C24_Read(once, v.id)
             IN /\ back = v
                /\ finalize_write(once, back, TRUE) = once
                /\ finalize_write(finalize_write(tblVisits, back, TRUE), v, TRUE) = once

C24_RepeatChangesNothing ==
    [][(writes' = writes + 1 /\ repeated' /\ lastWrite[3])
         => UNCHANGED <<tblVisits, tblCaptures>>]_vars

C28_OneHolder ==
    \A p, q \in 1..MaxProcs :
        holding[p] # 0 => /\ holding[p] \in lock_files
                          /\ holding[q] = holding[p] => q = p

C28_TryLock ==
    [][(lockOps' = lockOps + 1 /\ lastLockOp'[1] = "try_lock")
         => LET p == lastLockOp'[2]
                img == lastLockOp'[3]
            IN /\ (\E q \in 1..MaxProcs : holding[q] = img)
                    => lock_ret'[p] = "None" /\ holding'[p] = 0
               /\ (img \notin lock_files /\ lastLockOp'[4] = "ok")
                    => lock_ret'[p] = "path" /\ holding'[p] = img]_vars

C28_ReleaseLock ==
    [][(lockOps' = lockOps + 1 /\ lastLockOp'[1] = "release_lock"
                               /\ lastLockOp'[4] = "ok")
         => /\ lastLockOp'[3] \notin lock_files'
            /\ \A q \in 1..MaxProcs : holding'[q] # lastLockOp'[3]]_vars

C28_ExclusiveLock == []C28_OneHolder /\ C28_TryLock /\ C28_ReleaseLock

\* Process 1 has held a lock and let go of it, and process 2 now holds the
\* lock of image 1; the run is long enough for process 2 to have been
\* refused that lock before.
C28_Witness ==
    /\ lockOps = 4
    /\ lock_ret[1] = "path"
    /\ holding[1] = 0
    /\ holding[2] = 1
    /\ lock_files = {1}
    /\ lastLockOp = <<"try_lock", 2, 1, "ok">>

\* C29: load_metrics after a save_metrics(m) that wrote the file returns m;
\* with the file missing or not valid JSON it returns the default record
\* (total_visits 0, no visits, no species counts); it never raises.
C29_NeverRaises == ~loaded.raised

C29_Load ==
    [][(metricsOps' = metricsOps + 1 /\ lastMetricsOp'[1] = "load_metrics")
         => /\ (metrics_file[1] = "json" /\ lastMetricsOp' = <<"load_metrics", "ok">>)
                 => loaded'.value = saved
            /\ metrics_file[1] \in {"missing", "invalid"}
                 => /\ loaded'.value.total_visits = 0
                    /\ Len(loaded'.value.visits) = 0
                    /\ DOMAIN loaded'.value.species_counts = {}]_vars

C29_Save ==
    [][(metricsOps' = metricsOps + 1 /\ lastMetricsOp' = <<"save_metrics", "ok">>)
         => metrics_file'[1] = "json" /\ json_load(metrics_file'[2]) = saved']_vars

C29_RoundTrip == []C29_NeverRaises /\ C29_Load /\ C29_Save

\* A record with a visit and the counts of two species was saved and has
\* been loaded again.
C29_Witness ==
    /\ metricsOps = 3
    /\ lastMetricsOp = <<"load_metrics", "ok">>
    /\ metrics_file[1] = "json"
    /\ loaded.value = saved
    /\ saved.total_visits = 1
    /\ Len(saved.visits) = 1
    /\ DOMAIN saved.species_counts = {"robin", "unknown"}

\* C30: normalize_species returns 'multi' for every name that contains a
\* comma or ' and ', 'unknown' for an empty or missing name, 'sparrow' for
\* 'sparrows' and 'house sparrow' for 'house sparrows'.
C30_Multi ==
    (name_in # NoneName /\ (Contains(name_in, <<",">>) \/ Contains(name_in, <<" ", "a", "n", "d", " ">>)))
        => normalized = <<"m", "u", "l", "t", "i">>

C30_Unknown == name_in \in {<<>>, NoneName} => normalized = <<"u", "n", "k", "n", "o", "w", "n">>

C30_Plurals ==
    /\ name_in = <<"s", "p", "a", "r", "r", "o", "w", "s">> => normalized = <<"s", "p", "a", "r", "r", "o", "w">>
    /\ name_in = <<"h", "o", "u", "s", "e", " ", "s", "p", "a", "r", "r", "o", "w", "s">> => normalized = <<"h", "o", "u", "s", "e", " ", "s", "p", "a", "r", "r", "o", "w">>

C30_Normalized == normalized # Pending => C30_Multi /\ C30_Unknown /\ C30_Plurals

\* C31: in every state of the engine, current_visit is set exactly when the
\* state is BIRD_PRESENT or BIRD_ABSENT, the Visit it names is then 'active'
\* with no end_time, and absence_start_time is set exactly when the state is
\* BIRD_ABSENT.
C31_EngineConsistent ==
    /\ current_visit # NoVisit <=> state \in {"bird_present", "bird_absent"}
    /\ current_visit # NoVisit
         => /\ current_visit \in VisitIds
            /\ visits[current_visit].status = "active"
            /\ visits[current_visit].end_time = NoTime
    /\ absence_start_time # NoTime <=> state = "bird_absent"

\* The bird of the second Visit has come back within the grace period.
C31_Witness ==
    /\ current_visit = 2
    /\ state = "bird_present"
    /\ prevState = "bird_absent"
    /\ visits[1].status = "analyzing"

\* C32: the clock never running backwards, the cooldown has elapsed
\* whenever the engine is in IDLE (cooldown_start_time is unset or at least
\* VISIT_COOLDOWN_SEC in the past), so a detected tick in IDLE always
\* starts a Visit.
C32_IdleAfterCooldown ==
    state = "idle"
        => \/ cooldown_start_time = NoTime
           \/ clock - cooldown_start_time >= VISIT_COOLDOWN_SEC

C32_DetectedInIdleStarts ==
    [][(IsTick /\ state = "idle" /\ lastTick' = "detected")
         => /\ result'.action = "start_visit"
            /\ state' = "bird_present"
            /\ current_visit' = Len(visits) + 1]_vars

C32_IdleRow == []C32_IdleAfterCooldown /\ C32_DetectedInIdleStarts

\* The second Visit was started from IDLE, entered after the cooldown of the first.
C32_Witness ==
    /\ Len(visits) = 2
    /\ prevState = "idle"
    /\ result.action = "start_visit"
    /\ cooldown_start_time # NoTime
    /\ state = "bird_present"

\* C33: however the detector and the worker interleave, a Visit whose row
\* reads 'analyzing', or which the worker has taken up, has all its
\* captures in the store already: the engine has closed it, every capture
\* it holds is stored, and no capture is inserted for it from then on.
C33_Visible(i) ==
    \/ dbVisits[i].status \in {"analyzing", "completed", "failed"}
    \/ \E k \in 1..Len(workerBatch) : workerBatch[k] = i

C33_AllCapturesStored ==
    \A i \in VisitIds :
        C33_Visible(i) => /\ visits[i].end_time # NoTime
                          /\ i # current_visit
                          /\ dbCaptures[i] = visits[i].captures

C33_NoLateCapture ==
    [][\A i \in VisitIds : C33_Visible(i) => dbCaptures'[i] = dbCaptures[i]]_vars

C33_CompleteCaptureSet == []C33_AllCapturesStored /\ C33_NoLateCapture

\* The worker is choosing among the two captures of the first Visit while
\* the second Visit is being photographed.
C33_Witness ==
    /\ workerPc = "identify"
    /\ Head(workerBatch) = 1
    /\ Len(dbCaptures[1]) = 2
    /\ current_visit = 2
    /\ Len(dbCaptures[2]) >= 1

\* C34: every task the analysis worker takes from analysis_queue is followed
\* by exactly one task_done() on every path through the worker's body, so
\* whenever the worker is not inside the body the queue's count of
\* unfinished tasks is the number of tasks still queued, and 0 once all
\* tasks have been taken.
C34_TaskDoneAfterEveryGet ==
    workerLoc # "body" => /\ unfinished_tasks = Len(analysis_queue)
                          /\ processed + Len(analysis_queue) = produced

\* C35: starting from empty metrics, after any sequence of update_metrics
\* calls the metrics on file have total_visits = number of visits = sum of
\* the species counts, pairwise distinct visit ids and positive counts only;
\* and a call that repeats the image and species of the call before it
\* leaves the metrics as that call left them.
RECURSIVE C35_Sum(_)
C35_Sum(counts) ==
    IF DOMAIN counts = {} THEN 0
    ELSE LET k == CHOOSE x \in DOMAIN counts : TRUE
         IN counts[k] + C35_Sum([x \in DOMAIN counts \ {k} |-> counts[x]])

C35_OnFile == load_metrics(metrics_file, "ok").value

C35_Consistent ==
    LET m == C35_OnFile IN
    /\ m.total_visits = Len(m.visits)
    /\ m.total_visits = C35_Sum(m.species_counts)
    /\ \A i, j \in 1..Len(m.visits) : m.visits[i].id = m.visits[j].id => i = j
    /\ \A k \in DOMAIN m.species_counts : m.species_counts[k] > 0
    /\ \A d \in Digests, sp \in MetricSpecies :
          update_metrics(update_metrics(m, d, sp), d, sp) = update_metrics(m, d, sp)

C35_RepeatedCall ==
    [][(/\ metricsOps' = metricsOps + 1
        /\ Len(lastMetricsOp) = 5
        /\ lastMetricsOp[5] = "ok"
        /\ lastMetricsOp' = <<"update_metrics", lastMetricsOp[2], lastMetricsOp[3],
                               "ok", "ok">>)
         => metrics_file' = metrics_file]_vars

C36_Closed(i) == dbVisits[i].status \in {"completed", "failed"}

C36_CountedOncePerVisit ==
    /\ \A s \in DOMAIN species_stats :
          species_stats[s] <= Cardinality({i \in DOMAIN dbVisits :
                                  /\ dbVisits[i].status = "completed"
                                  /\ dbVisits[i].species = s})
    /\ \A k \in 1..Len(workerBatch) : dbVisits[workerBatch[k]].status = "analyzing"

C36_StatAfterCompleted ==
    [][species_stats' # species_stats =>
          \E i \in DOMAIN dbVisits : \E s \in DOMAIN species_stats :
              /\ dbVisits[i].status = "analyzing"
              /\ dbVisits'[i].status = "completed"
              /\ dbVisits'[i].species = s
              /\ species_stats' = [species_stats EXCEPT ![s] = @ + 1]]_vars

C36_ClosedStaysClosed ==
    [][\A i \in DOMAIN dbVisits : C36_Closed(i) => dbVisits'[i] = dbVisits[i]]_vars

C36_StatsAtMostOnce ==
    []C36_CountedOncePerVisit /\ C36_StatAfterCompleted /\ C36_ClosedStaysClosed

\* One Visit was completed as a robin and counted once, another was
\* completed as 'unknown', and the worker is polling again.
C36_Witness ==
    /\ workerPc = "poll"
    /\ \E i, j \in DOMAIN dbVisits :
          /\ dbVisits[i].status = "completed" /\ dbVisits[i].species = "robin"
          /\ dbVisits[j].status = "completed" /\ dbVisits[j].species = "unknown"
    /\ species_stats["robin"] = 1

\* C37: of the captures stored for a Visit, in the order of their inserts,
\* the first one and no other has is_best_capture = true, whatever store
\* attempts failed before or after it; stored captures are never rewritten.
C37_FirstStoredIsBest ==
    \A i \in 1..Len(dbCaptures) : \A k \in 1..Len(dbCaptures[i]) :
        dbCaptures[i][k].is_best_capture <=> k = 1

C37_StoredInOrder ==
    [][\A i \in 1..Len(dbCaptures) :
          /\ Len(dbCaptures'[i]) >= Len(dbCaptures[i])
          /\ SubSeq(dbCaptures'[i], 1, Len(dbCaptures[i])) = dbCaptures[i]]_vars

C37_OneBestCapture == []C37_FirstStoredIsBest /\ C37_StoredInOrder

\* The current Visit has had two capture attempts, the one of its first tick
\* and the one of this tick; their uploads went through, one insert failed,
\* and the capture that was stored carries the flag.
C37_Witness ==
    /\ current_visit # NoVisit
    /\ result.capture
    /\ result.action # "start_visit"
    /\ dbVisits[current_visit].status # "missing"
    /\ faults = 1
    /\ Len(dbCaptures[current_visit]) = 1
    /\ dbCaptures[current_visit][1].is_best_capture
    /\ dbCaptures[current_visit][1].image_url = "http"

\* C38: in the capture script's main loop a task is put on the queue only in
\* a pass that detects a bird while bird_present is false and at least
\* CAPTURE_GAP_SEC after the last capture, and then exactly one; any two
\* tasks are at least CAPTURE_GAP_SEC apart; unique_count is the number of
\* tasks put on the current day; and bird_present goes back to false only in
\* a pass without a detection, BIRD_ABSENCE_TIMEOUT after the last one.
C38_OnlyOnNewPresence ==
    [][Len(puts') # Len(puts) =>
          /\ lastPass' = "detected"
          /\ ~bird_present
          /\ wall' - script_last_capture_time >= CAPTURE_GAP_SEC
          /\ Len(puts') = Len(puts) + 1
          /\ SubSeq(puts', 1, Len(puts)) = puts]_vars

C38_GapBetweenCaptures ==
    \A i, j \in 1..Len(puts) :
        i < j => puts[j].time - puts[i].time >= CAPTURE_GAP_SEC

C38_CountIsTasksOfDay ==
    unique_count = Cardinality({k \in 1..Len(puts) : puts[k].day = today})

C38_AbsentAfterTimeout ==
    [][(bird_present /\ ~bird_present') =>
          /\ lastPass' # "detected"
          /\ wall' - last_bird_detection_time >= BIRD_ABSENCE_TIMEOUT]_vars

C38_CaptureDiscipline ==
    /\ [](C38_GapBetweenCaptures /\ C38_CountIsTasksOfDay)
    /\ C38_OnlyOnNewPresence
    /\ C38_AbsentAfterTimeout

\* C39: within one run of the capture analyzer each image content is
\* analysed at most once, and not at all when the metrics held its digest at
\* start-up; the metrics on file hold at most one entry per digest; and a
\* process_one call that acquired the lock of its image has removed the lock
\* file when it returns, whichever path it took.
C39_AnalysedAtMostOnce ==
    \A d \in Digests : analysed_count[d] <= (IF d \in start_ids THEN 0 ELSE 1)

C39_RecordedAtMostOnce ==
    LET v == load_metrics(metrics_file, "ok").value.visits
    IN \A i, j \in 1..Len(v) : v[i].id = v[j].id => i = j

C39_LockReleased ==
    [][(processCalls' # processCalls /\ lastProcess'[2] # "no_lock")
          => lastProcess'[1] \notin lock_files']_vars

C39_OncePerDigest ==
    /\ [](C39_AnalysedAtMostOnce /\ C39_RecordedAtMostOnce)
    /\ C39_LockReleased

\* C40: the detector never has more than one camera connection open, and
\* neither has frame_grabber: when a capture is opened, the one of before
\* has been released; and after cleanup, and after frame_grabber has
\* returned, no connection is open.
C40_DetectorOneConnection ==
    /\ cap_peak <= 1
    /\ lastIter = "cleanup" => cap # "opened"

C40_GrabberOneConnection ==
    /\ grab_peak <= 1
    /\ ~grabber_alive => grab_cap # "opened"

C40_OneConnection == C40_DetectorOneConnection /\ C40_GrabberOneConnection

====
